---- MODULE Spec2Model ----
(***************************************************************************)
(* A model of the HEPHA abstract interpreter: the tag propagation sets of  *)
(* the annotations crate, the heap block cache, the condition solver, the  *)
(* offset check, the transfer of heap layout effects, the byte-exact       *)
(* transmutation of union fields, the tag layer and the fixed-point        *)
(* visitor.  Each part of the program has its own variables and its own    *)
(* specification; a specification leaves the variables of the other parts  *)
(* in their idle state.                                                    *)
(***************************************************************************)
EXTENDS Integers, Naturals, Sequences, FiniteSets, TLC

VARIABLES
    \* annotations/src/lib.rs: a TagPropagationSet being edited
    propSet,        \* the current set (a u128 bit vector)
    propOrig,       \* the set the edit started from
    propKind,       \* the TagPropagation the edit is about
    propOps,        \* the functions applied so far, in order
    \* body_visitor.rs: the heap block cache of a BodyVisitor
    current_location,
    heap_addresses,
    heap_counter,
    heap_layouts,   \* the Layout entries of current_environment, per heap block
    heap_returned,  \* history: the blocks get_new_heap_block returned, per location
    heap_last,      \* history: the arguments and the result of the last call
    heap_calls,     \* history: the number of calls made
    \* body_visitor.rs: the diagnostics of a BodyVisitor
    diag_ctx,       \* what emit_diagnostic reads: the body, the options, the span
    buffered_diagnostics,
    emitted,        \* history: the messages handed to emit_diagnostic
    \* body_visitor.rs: the condition solver
    cond_entry,     \* current_environment.entry_condition
    cond_val,       \* the condition c the calls are about
    cond_log,       \* history: the calls made and what they returned
    smt_solver,     \* the assertion stack of smt_solver: one set of predicates per level
    \* body_visitor.rs: check_offset
    off_input,      \* the Offset value to check
    off_done,
    \* body_visitor.rs: the transfer of the effects of a summary
    value_map,      \* current_environment.value_map
    check_for_errors,
    analysis_is_incomplete,
    xfer_log,       \* history: the layout effects transferred, in order
    xfer_calls,     \* history: the number of calls of transfer_and_refine
    xfer_last,      \* history: the effects the last call had to apply and applied
    \* fixed_point_visitor.rs: a FixedPointVisitor
    fp_body,        \* bv.mir: the predecessors of the basic blocks
    fp_cleanup,     \* bv.mir: the blocks that have is_cleanup set
    fp_exits,       \* bv.mir: what the terminator of each block does to the exit conditions
    block_indices,
    loop_anchors,
    already_visited,
    in_state,
    out_state,
    terminator_state,
    fp_stack,       \* the activations of compute_fixed_point, innermost last
    visit_pos,      \* the position of visit_blocks in block_indices
    fp_done,        \* visit_blocks has left its loop
    fp_last_exit,   \* history: how compute_fixed_point returned last
    fp_visit,       \* history: the last call of visit_basic_block
    interpreted,    \* history: the number of times each block was interpreted
    \* body_visitor.rs: a union in current_environment
    un_place,       \* the root path of the union and the types of its fields
    un_log,         \* history: the last operation and the value_map before it
    un_ops,         \* history: the number of operations made
    \* body_visitor.rs: visit_body
    vb_pc,          \* the position of visit_body
    vb_clock,       \* start_instant.elapsed().as_secs()
    vb_max,         \* options.max_analysis_time_for_body
    vb_entered_with, \* history: the count of def_id in active_calls_map at the entry
    vb_result,      \* the Summary visit_body returned
    vb_blown,       \* history: the budgets blown during visit_body
    cancelled,      \* history: the diagnostics emit_diagnostic cancelled
    \* options.rs: Options::parse
    opt_args,       \* the arguments given to parse
    opt_harness,    \* running_test_harness
    opt_self,       \* the Options parse works on
    opt_out,        \* how parse ended and what it returned
    \* contract_errors.rs: the ReentrancyChecker of a BodyVisitor
    block_statements,
    function_lamport_transfer,
    temporary_variable_for_balance,
    is_reentrancy,  \* history: what check returned and the entry that was last
    \* body_visitor.rs: update_value_at on the elements of a collection
    sl_map,         \* current_environment.value_map
    sl_last,        \* history: the last call and the paths it wrote
    sl_ops,         \* history: the number of calls made
    \* body_visitor.rs: copy_and_transmute on references to transparent wrappers
    ct_source_rustc_type,
    ct_target_rustc_type,
    ct_pc,          \* the position of copy_and_transmute
    ct_ty,          \* the local ty of the loop that strips the wrappers
    ct_path,        \* the number of field selectors the loop has added to its path
    \* body_visitor.rs: import_static
    analyzing_static_var,
    active_calls_map,       \* the def_ids with an entry
    static_value_map,       \* the static paths in current_environment.value_map
    fresh_variable_offset,  \* in units of 1_000_000
    st_last                 \* history: the last call of import_def_id_as_static

propVars == <<propSet, propOrig, propKind, propOps>>
heapVars == <<current_location, heap_addresses, heap_counter, heap_layouts,
              heap_returned, heap_last, heap_calls>>
diagVars == <<diag_ctx, buffered_diagnostics, emitted>>
condVars == <<cond_entry, cond_val, cond_log, smt_solver>>
offVars == <<off_input, off_done>>
xferVars == <<value_map, check_for_errors, analysis_is_incomplete, xfer_log, xfer_calls, xfer_last>>
fpVars == <<fp_body, fp_cleanup, fp_exits, block_indices, loop_anchors, already_visited,
            in_state, out_state, terminator_state, fp_stack, visit_pos, fp_done,
            fp_last_exit, fp_visit, interpreted>>
unVars == <<un_place, un_log, un_ops>>
bodyVars == <<vb_pc, vb_clock, vb_max, vb_entered_with, vb_result, vb_blown, cancelled>>
optVars == <<opt_args, opt_harness, opt_self, opt_out>>
reVars == <<block_statements, function_lamport_transfer, temporary_variable_for_balance,
            is_reentrancy>>
slVars == <<sl_map, sl_last, sl_ops>>
ctVars == <<ct_source_rustc_type, ct_target_rustc_type, ct_pc, ct_ty, ct_path>>
stVars == <<analyzing_static_var, active_calls_map, static_value_map,
            fresh_variable_offset, st_last>>
moreVars == <<reVars, slVars, ctVars, stVars>>
baseVars == <<propVars, heapVars, diagVars, condVars, offVars, xferVars, fpVars, unVars,
              bodyVars, optVars>>
vars == <<baseVars, moreVars>>

None == <<>>
Some(x) == <<x>>

(***************************************************************************)
(* Tag propagation sets (annotations/src/lib.rs).                          *)
(* A TagPropagationSet is a u128; it is modelled as the vector of its 128  *)
(* bits, bit 0 being the least significant one.                            *)
(***************************************************************************)
U128Bits == 128
BitIndex == 0 .. (U128Bits - 1)
\* A u128 is the set of the positions of its bits that are 1.
U128 == SUBSET BitIndex

\* The discriminants of enum TagPropagation: Add = 0 .. UninterpretedCall = 35.
LastTagPropagation == 35
TagPropagation == 0 .. LastTagPropagation
Add == 0
SubComponent == 31
SuperComponent == 33

Zero128 == {}
BitOr(a, b) == {i \in BitIndex : i \in a \/ i \in b}
BitAnd(a, b) == {i \in BitIndex : i \in a /\ i \in b}
BitXor(a, b) == {i \in BitIndex : (i \in a) # (i \in b)}
BitNot(a) == {i \in BitIndex : i \notin a}
\* 1 << n on a u128: the bit n - if it fits - is the only one set.
ShiftLeftOne(n) == {i \in BitIndex : i = n}

\* TagPropagation::into_set: 1 << (self as u8)
into_set(propagation) == ShiftLeftOne(propagation % 256)

\* tag_propagation_set!(x, ...): 0 | (1 << x) | ...
tag_propagation_set(kinds) == {i \in BitIndex : \E k \in kinds : i \in ShiftLeftOne(k % 256)}

TAG_PROPAGATION_ALL == tag_propagation_set(TagPropagation)

add_propagation_xor(set, propagation) == BitXor(set, into_set(propagation))
\* add_propagation: set | propagation.into_set()
add_propagation(set, propagation) == BitOr(set, into_set(propagation))

remove_propagation_no_complement(set, propagation) == BitAnd(set, into_set(propagation))
\* remove_propagation: set & !propagation.into_set()
remove_propagation(set, propagation) == BitAnd(set, BitNot(into_set(propagation)))

\* The sets an edit starts from: the empty set, all propagations, the sets
\* of the tests, sets with bits no TagPropagation uses, and the full u128.
PropSamples ==
    { Zero128, TAG_PROPAGATION_ALL, BitNot(Zero128),
      tag_propagation_set({Add}), tag_propagation_set({SuperComponent}),
      tag_propagation_set({Add, SubComponent, LastTagPropagation}),
      tag_propagation_set({1, 36, 127}),
      tag_propagation_set(TagPropagation \ {SubComponent}) }

MaxPropOps == 2

PropInit ==
    /\ propOrig \in PropSamples
    /\ propSet = propOrig
    /\ propKind \in TagPropagation
    /\ propOps = <<>>

PropIdle ==
    /\ propOrig = Zero128
    /\ propSet = Zero128
    /\ propKind = Add
    /\ propOps = <<>>

AddPropagation ==
    /\ Len(propOps) < MaxPropOps
    /\ propSet' = add_propagation(propSet, propKind)
    /\ propOps' = Append(propOps, "add")
    /\ UNCHANGED <<propOrig, propKind>>

RemovePropagation ==
    /\ Len(propOps) < MaxPropOps
    /\ propSet' = remove_propagation(propSet, propKind)
    /\ propOps' = Append(propOps, "remove")
    /\ UNCHANGED <<propOrig, propKind>>

(***************************************************************************)
(* The heap block cache (body_visitor.rs, get_new_heap_block).             *)
(***************************************************************************)
MaxLocation == 1
MaxHeapCalls == 3
Locations == 0 .. MaxLocation
LayoutLengths == {8, 16}
LayoutAlignments == {8}

\* Expression::HeapBlock { abstract_address, is_zeroed }
HeapBlock(address, zeroed) == [abstract_address |-> address, is_zeroed |-> zeroed]

\* Expression::HeapBlockLayout { length, alignment, source }
HeapBlockLayout(len, align, src) == [length |-> len, alignment |-> align, source |-> src]

\* ConstantValueCache::get_new_heap_block: a block with the next address.
cache_get_new_heap_block(counter, is_zeroed) == HeapBlock(counter, is_zeroed)

get_new_heap_block_uncached(addresses, location, counter, is_zeroed) ==
    [counter |-> counter + 1,
     addresses |-> [addresses EXCEPT ![location] =
                        Some(cache_get_new_heap_block(counter, is_zeroed))],
     block |-> cache_get_new_heap_block(counter, is_zeroed)]
\* heap_addresses.entry(current_location).or_insert_with(|| new block).clone()
get_new_heap_block(addresses, location, counter, is_zeroed) ==
    IF addresses[location] # None
    THEN [counter |-> counter, addresses |-> addresses, block |-> addresses[location][1]]
    ELSE [counter |-> counter + 1,
          addresses |-> [addresses EXCEPT ![location] =
                            Some(cache_get_new_heap_block(counter, is_zeroed))],
          block |-> cache_get_new_heap_block(counter, is_zeroed)]

\* Environment::strong_update_value_at on a map from paths to values.
strong_update_value_at(map, path, value) ==
    [p \in (DOMAIN map) \cup {path} |-> IF p = path THEN value ELSE map[p]]

HeapInit ==
    /\ current_location = 0
    /\ heap_addresses = [l \in Locations |-> None]
    /\ heap_counter = 0
    /\ heap_layouts = <<>>
    /\ heap_returned = [l \in Locations |-> {}]
    /\ heap_last = None
    /\ heap_calls = 0

HeapIdle == HeapInit

\* The visitor moves to another statement; a fixed-point iteration comes
\* back to the locations it has visited before.
VisitLocation(l) ==
    /\ current_location' = l
    /\ UNCHANGED <<heap_addresses, heap_counter, heap_layouts, heap_returned, heap_last,
                   heap_calls>>

GetNewHeapBlock(length, alignment, is_zeroed) ==
    /\ heap_calls < MaxHeapCalls
    /\ LET r == get_new_heap_block(heap_addresses, current_location, heap_counter, is_zeroed)
       IN  /\ heap_addresses' = r.addresses
           /\ heap_counter' = r.counter
           /\ heap_layouts' = strong_update_value_at(heap_layouts, r.block,
                                    HeapBlockLayout(length, alignment, "Alloc"))
           /\ heap_returned' = [heap_returned EXCEPT ![current_location] = @ \cup {r.block}]
           /\ heap_last' = Some([is_zeroed |-> is_zeroed, length |-> length,
                                 location |-> current_location, block |-> r.block])
    /\ heap_calls' = heap_calls + 1
    /\ UNCHANGED current_location

\* reset_visitor_state: the visitor starts on another body (a promoted constant
\* or the body proper); the heap counter of the crate's cache is not reset.
ResetVisitorState ==
    /\ heap_calls > 0
    /\ heap_calls < MaxHeapCalls
    /\ heap_addresses' = [l \in Locations |-> None]
    /\ current_location' = 0
    /\ heap_layouts' = <<>>
    /\ heap_returned' = [l \in Locations |-> {}]
    /\ heap_last' = None
    /\ UNCHANGED <<heap_counter, heap_calls>>

(***************************************************************************)
(* Diagnostics (body_visitor.rs, emit_diagnostic).                         *)
(***************************************************************************)
DiagLevels == {"Default", "Verify", "Library", "Paranoid"}

DiagContexts ==
    [treat_as_foreign : BOOLEAN, is_local : BOOLEAN, diag_level : DiagLevels,
     in_derive_expansion : BOOLEAN, call_depth : 0 .. 2]

\* The context in which no diagnostic is cancelled.
PlainContext ==
    [treat_as_foreign |-> FALSE, is_local |-> TRUE, diag_level |-> "Default",
     in_derive_expansion |-> FALSE, call_depth |-> 1]

\* True if emit_diagnostic cancels the diagnostic instead of buffering it.
is_cancelled(ctx) ==
    \/ (ctx.treat_as_foreign \/ ~ctx.is_local) /\ ctx.diag_level # "Paranoid"
    \/ ctx.in_derive_expansion
    \/ ctx.call_depth > 1

\* emit_diagnostic on a warning that struct_span_warn made for current_span.
emit_diagnostic(buffer, ctx, message) ==
    IF (ctx.treat_as_foreign \/ ~ctx.is_local) /\ ctx.diag_level # "Paranoid"
    THEN buffer
    ELSE IF ctx.in_derive_expansion
    THEN buffer
    ELSE IF ctx.call_depth > 1
    THEN buffer
    ELSE Append(buffer, message)

\* One context for each way emit_diagnostic takes.
DiagSamples ==
    { PlainContext,
      [PlainContext EXCEPT !.treat_as_foreign = TRUE],
      [PlainContext EXCEPT !.is_local = FALSE, !.diag_level = "Paranoid"],
      [PlainContext EXCEPT !.in_derive_expansion = TRUE],
      [PlainContext EXCEPT !.call_depth = 2] }

DiagInit ==
    /\ diag_ctx \in DiagSamples
    /\ buffered_diagnostics = <<>>
    /\ emitted = <<>>

DiagIdle ==
    /\ diag_ctx = PlainContext
    /\ buffered_diagnostics = <<>>
    /\ emitted = <<>>

(***************************************************************************)
(* The condition solver (body_visitor.rs).                                 *)
(* A boolean abstract value is modelled by the set of the valuations of    *)
(* the program's variables in which it is true, and by whether it is a     *)
(* compile time constant.                                                  *)
(***************************************************************************)
NumWorlds == 2
Worlds == 1 .. NumWorlds

CondValues ==
    {v \in [truth : SUBSET Worlds, constant : BOOLEAN] :
        v.constant => v.truth \in {{}, Worlds}}

TRUE_VALUE == [truth |-> Worlds, constant |-> TRUE]
FALSE_VALUE == [truth |-> {}, constant |-> TRUE]

\* AbstractValue::logical_not
logical_not(v) == [truth |-> Worlds \ v.truth, constant |-> v.constant]

\* AbstractValue::as_bool_if_known
as_bool_if_known(v) ==
    IF v.constant /\ v.truth = Worlds THEN Some(TRUE)
    ELSE IF v.constant /\ v.truth = {} THEN Some(FALSE)
    ELSE None

\* AbstractValue::implies and implies_not: syntactic tests that are sound and
\* not complete; able tells whether the test recognises the implication.
implies(e, c, able) == able /\ e.truth \subseteq c.truth
implies_not(e, c, able) == able /\ e.truth \cap c.truth = {}

unwrap_or(opt, default) == IF opt = None THEN default ELSE opt[1]

SmtResults == {"Satisfiable", "Unsatisfiable", "Undefined"}

\* What the oracle is asked: is the conjunction of the assertions satisfiable?
Query(asserted, answer) == [asserted |-> asserted, answer |-> answer]
sound_answer(q) ==
    /\ q.answer = "Satisfiable" => q.asserted # {}
    /\ q.answer = "Unsatisfiable" => q.asserted = {}

\* The operations of the solver (SmtSolver): the stack of the asserted
\* predicates has one level per backtrack position.
NewSolver == <<{}>>
SetBacktrackPosition == [op |-> "set_backtrack_position", arg |-> {}]
AssertPredicate(e) == [op |-> "assert", arg |-> e]
Solve == [op |-> "solve", arg |-> {}]
Backtrack == [op |-> "backtrack", arg |-> {}]
\* SmtSolver::solve_expression
solve_expression(e) == <<SetBacktrackPosition, AssertPredicate(e), Solve, Backtrack>>
\* The effect of one operation on the stack.
perform(stack, operation) ==
    IF operation.op = "set_backtrack_position" THEN Append(stack, {})
    ELSE IF operation.op = "assert"
    THEN [stack EXCEPT ![Len(stack)] = @ \cup {operation.arg}]
    ELSE IF operation.op = "backtrack" /\ Len(stack) > 1 THEN SubSeq(stack, 1, Len(stack) - 1)
    ELSE stack
RECURSIVE perform_all(_, _, _)
perform_all(stack, ops, i) ==
    IF i > Len(ops) THEN stack ELSE perform_all(perform(stack, ops[i]), ops, i + 1)

solve_condition_first_answer_only(context, cond, a1, a2) ==
    [ops |-> <<SetBacktrackPosition>> \o solve_expression(cond.truth) \o <<Backtrack>>,
     result |-> IF a1 = "Unsatisfiable" THEN Some(FALSE)
                ELSE IF a1 = "Satisfiable" THEN Some(TRUE) ELSE None,
     queries |-> <<Query(context \cap cond.truth, a1)>>]
solve_condition_returning_when_unsatisfiable(context, cond, a1, a2) ==
    IF a1 = "Unsatisfiable"
    THEN [ops |-> <<SetBacktrackPosition>> \o solve_expression(cond.truth),
          result |-> Some(FALSE),
          queries |-> <<Query(context \cap cond.truth, a1)>>]
    ELSE IF a1 = "Satisfiable"
    THEN [ops |-> <<SetBacktrackPosition>> \o solve_expression(cond.truth)
                      \o solve_expression(Worlds \ cond.truth) \o <<Backtrack>>,
          result |-> IF a2 = "Unsatisfiable" THEN Some(TRUE) ELSE None,
          queries |-> <<Query(context \cap cond.truth, a1),
                        Query(context \cap (Worlds \ cond.truth), a2)>>]
    ELSE [ops |-> <<SetBacktrackPosition>> \o solve_expression(cond.truth) \o <<Backtrack>>,
          result |-> None,
          queries |-> <<Query(context \cap cond.truth, a1)>>]
\* solve_condition; context is what the solver has been told to assume, a1
\* and a2 are the oracle's answers for the condition and for its inverse.
solve_condition(context, cond, a1, a2) ==
    IF a1 = "Unsatisfiable"
    THEN [ops |-> <<SetBacktrackPosition>> \o solve_expression(cond.truth) \o <<Backtrack>>,
          result |-> Some(FALSE),
          queries |-> <<Query(context \cap cond.truth, a1)>>]
    ELSE IF a1 = "Satisfiable"
    THEN [ops |-> <<SetBacktrackPosition>> \o solve_expression(cond.truth)
                      \o solve_expression(Worlds \ cond.truth) \o <<Backtrack>>,
          result |-> IF a2 = "Unsatisfiable" THEN Some(TRUE) ELSE None,
          queries |-> <<Query(context \cap cond.truth, a1),
                        Query(context \cap (Worlds \ cond.truth), a2)>>]
    ELSE [ops |-> <<SetBacktrackPosition>> \o solve_expression(cond.truth) \o <<Backtrack>>,
          result |-> None,
          queries |-> <<Query(context \cap cond.truth, a1)>>]

SolverInputs ==
    [can_imply : BOOLEAN, can_imply_not : BOOLEAN,
     entry_answer : SmtResults, cond_answer : SmtResults, inverse_answer : SmtResults]

\* What check_condition_value_and_reachability returns when it has called
\* solve_condition, with the solver operations and the queries it makes
\* itself before and after that call.
solved_inside(s, ops_before, ops_after, queries_before, entry_cond_as_bool) ==
    [ops |-> ops_before \o s.ops \o ops_after,
     queries |-> queries_before \o s.queries,
     entry_cond_as_bool |-> entry_cond_as_bool,
     cond_as_bool |-> s.result]

\* check_condition_value_and_reachability; h is what the abstract domains
\* recognise and what the oracle answers in this call.
check_condition_value_and_reachability(entry, cond, h) ==
    LET cond_as_bool == as_bool_if_known(cond)
        entry_cond_as_bool == as_bool_if_known(entry)
    IN  IF entry_cond_as_bool # None
        THEN IF entry_cond_as_bool[1] /\ cond_as_bool = None
             THEN solved_inside(solve_condition(Worlds, cond, h.cond_answer, h.inverse_answer),
                               <<>>, <<>>, <<>>, entry_cond_as_bool)
             ELSE [ops |-> <<>>,
                   queries |-> <<>>,
                   entry_cond_as_bool |-> entry_cond_as_bool,
                   cond_as_bool |-> cond_as_bool]
        ELSE IF unwrap_or(cond_as_bool, FALSE) \/ implies(entry, cond, h.can_imply)
        THEN [ops |-> <<>>, queries |-> <<>>,
              entry_cond_as_bool |-> entry_cond_as_bool, cond_as_bool |-> Some(TRUE)]
        ELSE IF ~unwrap_or(cond_as_bool, TRUE) \/ implies_not(entry, cond, h.can_imply_not)
        THEN [ops |-> <<>>, queries |-> <<>>,
              entry_cond_as_bool |-> entry_cond_as_bool, cond_as_bool |-> Some(FALSE)]
        ELSE LET q == Query(entry.truth, h.entry_answer)
                 entry2 == IF h.entry_answer = "Unsatisfiable"
                           THEN Some(FALSE) ELSE entry_cond_as_bool
             IN  IF cond_as_bool = None /\ unwrap_or(entry2, TRUE)
                 THEN solved_inside(
                          solve_condition(entry.truth, cond, h.cond_answer, h.inverse_answer),
                          <<SetBacktrackPosition, AssertPredicate(entry.truth), Solve>>,
                          <<Backtrack>>, <<q>>, entry2)
                 ELSE [ops |-> <<SetBacktrackPosition, AssertPredicate(entry.truth), Solve,
                                 Backtrack>>, queries |-> <<q>>,
                       entry_cond_as_bool |-> entry2,
                       cond_as_bool |-> cond_as_bool]

MaxCondCalls == 2

CondInit ==
    /\ cond_entry \in CondValues
    /\ cond_val \in CondValues
    /\ cond_log = <<>>
    /\ smt_solver = NewSolver

CondIdle ==
    /\ cond_entry = TRUE_VALUE
    /\ cond_val = TRUE_VALUE
    /\ cond_log = <<>>
    /\ smt_solver = NewSolver

\* One call of check_condition_value_and_reachability, on c or on not(c),
\* with the environment as it is.
CheckCondition(negated) ==
    /\ Len(cond_log) < MaxCondCalls
    /\ \E h \in SolverInputs :
         LET c == IF negated THEN logical_not(cond_val) ELSE cond_val
             r == check_condition_value_and_reachability(cond_entry, c, h)
         IN  /\ cond_log' = Append(cond_log,
                     [ops |-> r.ops,
                      entry_cond_as_bool |-> r.entry_cond_as_bool,
                      cond_as_bool |-> r.cond_as_bool,
                      negated |-> negated,
                      asked |-> Len(r.queries),
                      sound |-> \A i \in 1 .. Len(r.queries) : sound_answer(r.queries[i]),
                      solver_before |-> smt_solver])
             /\ smt_solver' = perform_all(smt_solver, r.ops, 1)
    /\ UNCHANGED <<cond_entry, cond_val>>

(***************************************************************************)
(* The offset check (body_visitor.rs, check_offset).                       *)
(***************************************************************************)
OffsetLengths == {8, 16}
OffsetSlack == 2

\* An Offset { left, right } value: left is a reference to a heap block whose
\* Layout entry is in the environment, or some other pointer; right is an
\* i128 constant.
OffsetInputs ==
    {o \in [left_is_heap_block : BOOLEAN, layout_known : BOOLEAN,
            length : OffsetLengths, right : -1 .. 18] :
        /\ o.layout_known => o.left_is_heap_block
        /\ \/ o.right \in {-1, 0}
           \/ o.right \in (o.length - 1) .. (o.length + OffsetSlack)}

\* ge_zero.and(le_one_past) in check_offset: a constant when the Layout entry
\* gives the length, an undecided condition when len is left itself.
in_range_value(o, undecided) ==
    IF o.left_is_heap_block /\ o.layout_known
    THEN IF o.right >= 0 /\ o.right <= o.length + 1 THEN TRUE_VALUE ELSE FALSE_VALUE
    ELSE undecided

in_range_value_exact_end(o, undecided) ==
    IF o.left_is_heap_block /\ o.layout_known
    THEN IF o.right >= 0 /\ o.right <= o.length THEN TRUE_VALUE ELSE FALSE_VALUE
    ELSE undecided

OffsetWarning == "effective offset is outside allocated range"

\* check_offset: TRUE if the warning is made.
check_offset(entry, o, undecided, h) ==
    LET r == check_condition_value_and_reachability(entry, in_range_value(o, undecided), h)
    IN  unwrap_or(r.entry_cond_as_bool, TRUE) /\ ~unwrap_or(r.cond_as_bool, TRUE)

OffInit ==
    /\ off_input \in OffsetInputs
    /\ off_done = FALSE

OffIdle ==
    /\ off_input = [length |-> 8, left_is_heap_block |-> FALSE,
                    layout_known |-> FALSE, right |-> 0]
    /\ off_done = FALSE

CheckOffset ==
    /\ ~off_done
    /\ off_done' = TRUE
    /\ \E h \in SolverInputs, u \in {v \in CondValues : ~v.constant} :
         IF check_offset(cond_entry, off_input, u, h)
         THEN /\ emitted' = Append(emitted, OffsetWarning)
              /\ buffered_diagnostics' =
                    emit_diagnostic(buffered_diagnostics, diag_ctx, OffsetWarning)
         ELSE UNCHANGED <<emitted, buffered_diagnostics>>
    /\ UNCHANGED <<off_input, diag_ctx, condVars>>

(***************************************************************************)
(* Paths and values of the environment (body_visitor.rs uses them through  *)
(* Path and AbstractValue).  A path is its root and the selectors that     *)
(* qualify the root, innermost first.                                      *)
(***************************************************************************)
new_heap_block_path(block) == [value |-> <<"HeapBlock", block>>, selectors |-> <<>>]
new_local(ordinal) == [value |-> <<"LocalVariable", ordinal>>, selectors |-> <<>>]
new_parameter(ordinal) == [value |-> <<"Parameter", ordinal>>, selectors |-> <<>>]
new_qualified(qualifier, selector) == [qualifier EXCEPT !.selectors = Append(@, selector)]
new_layout(path) == new_qualified(path, "Layout")
new_deref(path) == new_qualified(path, "Deref")
new_field(path, name) == new_qualified(path, name)

is_qualified_path(path) == Len(path.selectors) > 0
qualifier_of(path) ==
    [path EXCEPT !.selectors = SubSeq(@, 1, Len(@) - 1)]
selector_of(path) == path.selectors[Len(path.selectors)]

\* Path::is_rooted_by: root is a proper prefix of path.
is_rooted_by(path, root) ==
    /\ path.value = root.value
    /\ Len(path.selectors) > Len(root.selectors)
    /\ SubSeq(path.selectors, 1, Len(root.selectors)) = root.selectors

\* Path::replace_root
replace_root(path, old_root, new_root) ==
    IF path = old_root THEN new_root
    ELSE IF is_rooted_by(path, old_root)
    THEN [value |-> new_root.value,
          selectors |-> new_root.selectors \o
              SubSeq(path.selectors, Len(old_root.selectors) + 1, Len(path.selectors))]
    ELSE path

\* Expressions of abstract values: a kind and what the kind carries.
Reference(path) == <<"Reference", path>>
Variable(path) == <<"Variable", path>>
OffsetValue(path, right) == <<"Offset", <<Reference(path), right>>>>
LayoutValue(layout) == <<"HeapBlockLayout", layout>>
U128Value(n) == <<"U128", n>>
TOP == <<"Top", 0>>

\* Path::canonicalize: the dereference of a path that holds a reference to
\* q in the environment is q.
canonicalize(path, map) ==
    LET base == [path EXCEPT !.selectors = <<>>]
    IN  IF /\ is_qualified_path(path)
           /\ path.selectors[1] = "Deref"
           /\ base \in DOMAIN map
           /\ map[base][1] = "Reference"
        THEN replace_root(path, new_deref(base), map[base][2])
        ELSE path

\* lookup_path_and_refine_result for a result of a non primitive type: the
\* value a computed path carries, else the value stored at the path, or an
\* unknown value of the path if there is none.  A
\* layout with constant fields is left as it is by the refinement with the
\* entry condition.
lookup_path_and_refine_result(map, path) ==
    IF path.value[1] = "Computed" /\ path.selectors = <<>> THEN path.value[2]
    ELSE IF path \in DOMAIN map /\ map[path] # TOP THEN map[path]
    ELSE Variable(path)

\* update_value_at for a path that is not a slice or a union field; such a
\* path has no aliases to update weakly.
update_value_at(map, path, value) == strong_update_value_at(map, path, value)

DoubleFreeWarning == "the pointer points to memory that has already been deallocated"
InconsistentLayoutWarning(possibly, new_source) ==
    <<IF possibly THEN "possibly " ELSE "",
      IF new_source = "ReAlloc" THEN "reallocates" ELSE "deallocates",
      " the pointer with layout information inconsistent with the allocation">>
TimeoutWarning == "The analysis of this function timed out"

\* A visitor state s holds value_map, buffered_diagnostics, emitted and log.
emit_warning(s, ctx, message) ==
    [s EXCEPT !.buffered_diagnostics = emit_diagnostic(@, ctx, message),
              !.emitted = Append(@, message)]

\* The second check of check_for_layout_consistency: r is what
\* check_condition_value_and_reachability returns for layouts_match.
warn_if_inconsistent(s, ctx, r, new_source) ==
    IF unwrap_or(r.entry_cond_as_bool, TRUE) /\ ~unwrap_or(r.cond_as_bool, FALSE)
    THEN emit_warning(s, ctx, InconsistentLayoutWarning(
             r.entry_cond_as_bool = None \/ r.cond_as_bool = None, new_source))
    ELSE s

check_for_layout_consistency_no_double_free(s, ctx, entry, h, old_layout, new_layout_expression) ==
    IF old_layout[1] = "HeapBlockLayout" /\ new_layout_expression[1] = "HeapBlockLayout"
    THEN LET layouts_match ==
                 IF /\ old_layout[2].length = new_layout_expression[2].length
                    /\ old_layout[2].alignment = new_layout_expression[2].alignment
                 THEN TRUE_VALUE ELSE FALSE_VALUE
         IN  warn_if_inconsistent(s, ctx,
                 check_condition_value_and_reachability(entry, layouts_match, h),
                 new_layout_expression[2].source)
    ELSE s
\* check_for_layout_consistency
check_for_layout_consistency(s, ctx, entry, h, old_layout, new_layout_expression) ==
    IF old_layout[1] = "HeapBlockLayout" /\ new_layout_expression[1] = "HeapBlockLayout"
    THEN LET s1 == IF old_layout[2].source = "DeAlloc"
                   THEN emit_warning(s, ctx, DoubleFreeWarning)
                   ELSE s
             layouts_match ==
                 IF /\ old_layout[2].length = new_layout_expression[2].length
                    /\ old_layout[2].alignment = new_layout_expression[2].alignment
                 THEN TRUE_VALUE ELSE FALSE_VALUE
         IN  warn_if_inconsistent(s1, ctx,
                 check_condition_value_and_reachability(entry, layouts_match, h),
                 new_layout_expression[2].source)
    ELSE s

\* The environment without the heap block and the paths it roots.
without_paths_of(map, qualifier) ==
    LET kept == {p \in DOMAIN map : ~(p = qualifier \/ is_rooted_by(p, qualifier))}
    IN  [p \in kept |-> map[p]]

\* purge_abstract_heap_address_from_environment; c holds what the visitor
\* reads: ctx, entry, h and check_for_errors.
purge_abstract_heap_address_from_environment(s, c, layout_path, new_layout_expression) ==
    IF is_qualified_path(layout_path) /\ selector_of(layout_path) = "Layout"
    THEN LET old_layout == lookup_path_and_refine_result(s.value_map, layout_path)
             qualifier == qualifier_of(layout_path)
         IN  IF old_layout[1] = "HeapBlockLayout"
             THEN LET s1 == IF c.check_for_errors
                            THEN check_for_layout_consistency(s, c.ctx, c.entry, c.h,
                                                              old_layout, new_layout_expression)
                            ELSE s
                  IN  [s1 EXCEPT !.value_map = without_paths_of(@, qualifier)]
             ELSE s
    ELSE s

\* The environment with the values that refer to the zeroed heap block
\* made to refer to the block that is not zeroed.
with_block_not_zeroed(m, qualifier) ==
    LET new_block_path == new_heap_block_path(
            HeapBlock(qualifier.value[2].abstract_address, FALSE))
    IN  [p \in DOMAIN m |->
            IF /\ m[p][1] \in {"Reference", "Variable"}
               /\ (m[p][2] = qualifier \/ is_rooted_by(m[p][2], qualifier))
            THEN <<m[p][1], replace_root(m[p][2], qualifier, new_block_path)>>
            ELSE m[p]]

\* update_zeroed_flag_for_heap_block_from_environment
update_zeroed_flag_for_heap_block_from_environment(s, c, layout_path, new_layout_expression) ==
    IF is_qualified_path(layout_path)
    THEN LET qualifier == qualifier_of(layout_path)
             s1 == IF c.check_for_errors
                   THEN check_for_layout_consistency(s, c.ctx, c.entry, c.h,
                            lookup_path_and_refine_result(s.value_map, layout_path),
                            new_layout_expression)
                   ELSE s
         IN  IF /\ ~is_qualified_path(qualifier)
                /\ qualifier.value[1] = "HeapBlock"
                /\ qualifier.value[2].is_zeroed
             THEN [s1 EXCEPT !.value_map = with_block_not_zeroed(@, qualifier)]
             ELSE s1
    ELSE s

\* report_timeout
report_timeout(s, ctx) ==
    LET s1 == IF ctx.diag_level # "Default"
              THEN emit_warning(s, ctx, TimeoutWarning)
              ELSE s
    IN  [s1 EXCEPT !.analysis_is_incomplete = TRUE]

\* The canonical form transfer_and_refine gives to the target path of an effect.
canonical_target_path(tpath, pre_environment) ==
    IF is_qualified_path(tpath)
    THEN IF selector_of(tpath) \in {"Deref", "Layout"}
         THEN canonicalize(tpath, pre_environment)
         ELSE new_qualified(canonicalize(qualifier_of(tpath), pre_environment),
                            selector_of(tpath))
    ELSE tpath

\* The entry of effects at the given path, if there is one.
find_effect(effects, path) ==
    IF \E k \in 1 .. Len(effects) : effects[k][1] = path
    THEN Some(effects[CHOOSE k \in 1 .. Len(effects) :
                        /\ effects[k][1] = path
                        /\ \A j \in 1 .. k - 1 : effects[j][1] # path])
    ELSE None

\* History: the layout effect that took the visitor from state s to s2.
logged_layout_effect(s, s2, tpath, rvalue) ==
    [s2 EXCEPT !.log = Append(@,
        [value_map |-> s2.value_map,
         source |-> rvalue[2].source,
         old_layout |-> lookup_path_and_refine_result(s.value_map, tpath),
         tpath |-> tpath,
         warnings |-> SubSeq(s2.emitted, Len(s.emitted) + 1, Len(s2.emitted))])]

\* The part of transfer_and_refine's loop body that deals with an effect
\* whose value is a HeapBlockLayout.
transfer_layout_effect(s, c, path, tpath, rvalue) ==
    LET layout_argument == find_effect(c.effects, new_layout(path))
        s1 == IF rvalue[2].source = "DeAlloc"
              THEN purge_abstract_heap_address_from_environment(s, c, tpath, rvalue)
              ELSE IF rvalue[2].source = "ReAlloc" /\ layout_argument # None
              THEN update_zeroed_flag_for_heap_block_from_environment(
                       s, c, tpath, layout_argument[1][2])
              ELSE s
    IN  logged_layout_effect(
            s, [s1 EXCEPT !.value_map = update_value_at(@, tpath, rvalue)], tpath, rvalue)

\* History: the i-th effect has been applied.
applied_effect(s, i) == [s EXCEPT !.applied = @ \cup {i}]
\* The effects the filter of transfer_and_refine lets through.
rooted_effects(effects, source_path) ==
    {i \in 1 .. Len(effects) :
        effects[i][1] = source_path \/ is_rooted_by(effects[i][1], source_path)}

\* transfer_and_refine from the i-th effect on.  c.stop tells at which effect
\* the visitor returns early and why: the time budget of the body is used
\* up, or the refined target path is PhantomData.
RECURSIVE transfer_and_refine(_, _, _)
transfer_and_refine(s, c, i) ==
    IF i > Len(c.effects) THEN s
    ELSE LET path == c.effects[i][1]
             rvalue == c.effects[i][2]
             tpath == canonical_target_path(
                          replace_root(path, c.source_path, c.target_path),
                          c.pre_environment)
         IN  IF ~(path = c.source_path \/ is_rooted_by(path, c.source_path))
             THEN transfer_and_refine(s, c, i + 1)
             ELSE IF c.stop.at = i
             THEN IF c.stop.why = "timeout" THEN report_timeout(s, c.ctx) ELSE s
             ELSE IF rvalue[1] = "HeapBlockLayout"
             THEN transfer_and_refine(
                      applied_effect(transfer_layout_effect(s, c, path, tpath, rvalue), i),
                      c, i + 1)
             ELSE transfer_and_refine(
                      applied_effect([s EXCEPT !.value_map = update_value_at(@, tpath, rvalue)],
                                     i),
                      c, i + 1)

MaxTransfers == 2
EffectAlignment == 8
Callee == new_deref(new_parameter(1))
DeAllocEffect(len) ==
    <<new_layout(Callee), LayoutValue(HeapBlockLayout(len, EffectAlignment, "DeAlloc"))>>
ReAllocEffect(len) ==
    <<new_layout(Callee), LayoutValue(HeapBlockLayout(len, EffectAlignment, "ReAlloc"))>>
ReAllocArgumentEffect(len) ==
    <<new_layout(new_layout(Callee)),
      LayoutValue(HeapBlockLayout(len, EffectAlignment, "ReAlloc"))>>
FieldEffect == <<new_field(Callee, "Field0"), U128Value(1)>>
OtherParameterEffect ==
    <<new_layout(new_deref(new_parameter(2))),
      LayoutValue(HeapBlockLayout(8, EffectAlignment, "DeAlloc"))>>

\* The side effects of the summaries of the callees.
EffectLists ==
    { <<DeAllocEffect(8)>>, <<DeAllocEffect(16)>>,
      <<ReAllocEffect(16)>>, <<ReAllocEffect(16), ReAllocArgumentEffect(8)>>,
      <<FieldEffect, DeAllocEffect(8)>>, <<OtherParameterEffect, FieldEffect>> }

NoStop == [at |-> 0, why |-> "none"]
Stops(effects) ==
    {NoStop} \cup [at : 1 .. Len(effects), why : {"timeout", "PhantomData"}]

\* What the abstract domains and the oracle do in check_for_layout_consistency.
LayoutSolverInputs ==
    { [can_imply |-> FALSE, can_imply_not |-> FALSE, entry_answer |-> "Undefined",
       cond_answer |-> "Undefined", inverse_answer |-> "Undefined"],
      [can_imply |-> TRUE, can_imply_not |-> TRUE, entry_answer |-> "Satisfiable",
       cond_answer |-> "Satisfiable", inverse_answer |-> "Unsatisfiable"],
      [can_imply |-> FALSE, can_imply_not |-> FALSE, entry_answer |-> "Unsatisfiable",
       cond_answer |-> "Unsatisfiable", inverse_answer |-> "Satisfiable"] }

\* The environments of the caller before the calls: a heap block, zeroed or
\* not, with or without a Layout entry, and the values that refer to it.
MapOf(pairs) ==
    [p \in {q[1] : q \in pairs} |-> (CHOOSE q \in pairs : q[1] = p)[2]]
Actual == new_local(1)
BlockPath(zeroed) == new_heap_block_path(HeapBlock(0, zeroed))
InitialEnvironments ==
    UNION { { MapOf(pointer \cup layout \cup others) :
                pointer \in { {}, {<<Actual, Reference(BlockPath(z))>>} },
                layout \in { {},
                    {<<new_layout(BlockPath(z)), LayoutValue(HeapBlockLayout(8, 8, "Alloc"))>>},
                    {<<new_layout(BlockPath(z)), LayoutValue(HeapBlockLayout(8, 8, "DeAlloc"))>>} },
                others \in { {},
                    { <<new_local(2), Reference(BlockPath(z))>>,
                      <<new_field(BlockPath(z), "Field0"), U128Value(0)>> },
                    { <<new_local(2), OffsetValue(BlockPath(z), 4)>>,
                      <<new_local(3), Variable(new_field(BlockPath(z), "Field0"))>>,
                      <<new_local(4), Reference(BlockPath(~z))>> } } }
            : z \in BOOLEAN }

XferInit ==
    /\ value_map \in InitialEnvironments
    /\ check_for_errors \in BOOLEAN
    /\ analysis_is_incomplete = FALSE
    /\ xfer_log = <<>>
    /\ xfer_calls = 0
    /\ xfer_last = None

XferIdle ==
    /\ value_map = <<>>
    /\ check_for_errors = FALSE
    /\ analysis_is_incomplete = FALSE
    /\ xfer_log = <<>>
    /\ xfer_calls = 0
    /\ xfer_last = None

\* One call of transfer_and_refine, for the effects of a callee on what its
\* first parameter points to.
TransferAndRefine ==
    /\ xfer_calls < MaxTransfers
    /\ ~analysis_is_incomplete
    /\ \E effects \in EffectLists, h \in LayoutSolverInputs :
         \E stop \in Stops(effects) :
           LET c == [check_for_errors |-> check_for_errors, ctx |-> diag_ctx,
                     entry |-> cond_entry, h |-> h,
                     pre_environment |-> value_map, effects |-> effects,
                     source_path |-> new_parameter(1),
                     target_path |-> Actual, stop |-> stop]
               s == [buffered_diagnostics |-> buffered_diagnostics,
                     emitted |-> emitted,
                     value_map |-> value_map, analysis_is_incomplete |-> analysis_is_incomplete,
                     log |-> xfer_log, applied |-> {}]
               r == transfer_and_refine(s, c, 1)
           IN  /\ value_map' = r.value_map
               /\ buffered_diagnostics' = r.buffered_diagnostics
               /\ emitted' = r.emitted
               /\ xfer_log' = r.log
               /\ analysis_is_incomplete' = r.analysis_is_incomplete
               /\ xfer_last' = Some([applied |-> r.applied,
                                     stop |-> stop,
                                     rooted |-> rooted_effects(effects, c.source_path)])
    /\ xfer_calls' = xfer_calls + 1
    /\ UNCHANGED <<diag_ctx, check_for_errors, condVars>>

(***************************************************************************)
(* The fixed-point visitor (fixed_point_visitor.rs).                       *)
(* A body is its basic blocks and their predecessors.  An environment is   *)
(* abstracted to one element of a chain of values, its entry condition    *)
(* and the exit conditions it has for the successors of the block.  The    *)
(* interpretation of a block (BlockVisitor) may leave any value.           *)
(***************************************************************************)
MaxValue == 1
MAX_FIXPOINT_ITERATIONS == 5
Values == 0 .. MaxValue

\* A loop that holds a nested loop: 0 -> 1, 1 -> 2, 2 -> 3, 3 -> 2, 3 -> 1.
NestedLoopBody == <<<<>>, <<0, 3>>, <<1, 3>>, <<2>>>>
\* A loop of two blocks and the block after it: 0 -> 1, 1 -> 2, 2 -> 1, 1 -> 3.
SimpleLoopBody == <<<<>>, <<0, 2>>, <<1>>, <<1>>>>
Bodies == {NestedLoopBody, SimpleLoopBody}

\* Basic blocks are numbered from 0; predecessors()[bb] is body[bb + 1].
BasicBlocks(body) == 0 .. Len(body) - 1
predecessors(body, bb) == body[bb + 1]
SeqRange(seq) == {seq[i] : i \in 1 .. Len(seq)}
successors(body, bb) == {b \in BasicBlocks(body) : bb \in SeqRange(predecessors(body, b))}

\* The blocks that the entry block reaches without going through avoid.
RECURSIVE ReachableAvoiding(_, _, _)
ReachableAvoiding(body, avoid, reached) ==
    LET more == reached \cup
                {b \in BasicBlocks(body) \ {avoid} :
                    \E p \in reached : p \in SeqRange(predecessors(body, b))}
    IN  IF more = reached THEN reached ELSE ReachableAvoiding(body, avoid, more)

\* Dominators::dominates(a, b): every path from the entry block to b goes through a.
dominates(body, a, b) ==
    \/ a = b
    \/ b \notin ReachableAvoiding(body, a, IF a = 0 THEN {} ELSE {0})

\* add_predecessors_then_root_block; st holds loop_anchors, block_indices
\* and already_added, and i is the next predecessor of root_block to look at.
RECURSIVE add_predecessors_then_root_block(_, _, _)
RECURSIVE add_predecessors_from(_, _, _, _)
add_predecessors_from(body, root_block, st, i) ==
    IF i > Len(predecessors(body, root_block)) THEN st
    ELSE LET pred_bb == predecessors(body, root_block)[i]
         IN  IF pred_bb \in st.already_added
             THEN add_predecessors_from(body, root_block, st, i + 1)
             ELSE IF dominates(body, root_block, pred_bb)
             THEN add_predecessors_from(body, root_block,
                      [st EXCEPT !.loop_anchors = @ \cup {root_block}], i + 1)
             ELSE add_predecessors_from(body, root_block,
                      add_predecessors_then_root_block(body, pred_bb, st), i + 1)
add_predecessors_then_root_block(body, root_block, st) ==
    IF root_block \in st.already_added THEN st
    ELSE LET st1 == add_predecessors_from(body, root_block,
                        [st EXCEPT !.already_added = @ \cup {root_block}], 1)
         IN  [st1 EXCEPT !.block_indices = Append(@, root_block)]

\* get_sorted_block_indices
RECURSIVE sort_blocks_from(_, _, _)
sort_blocks_from(body, bb, st) ==
    IF bb > Len(body) - 1 THEN st
    ELSE sort_blocks_from(body, bb + 1, add_predecessors_then_root_block(body, bb, st))
get_sorted_block_indices(body) ==
    sort_blocks_from(body, 0,
        [block_indices |-> <<>>, loop_anchors |-> {}, already_added |-> {}])

\* The control flow graphs get_sorted_block_indices is applied to: up to
\* MaxBlocks blocks, all of them reachable from the entry block 0, which has no
\* predecessor; predecessors()[bb] lists the predecessors in ascending order.
MaxBlocks == 4
RECURSIVE AscendingSeq(_)
AscendingSeq(blocks) ==
    IF blocks = {} THEN <<>>
    ELSE LET least == CHOOSE b \in blocks : \A c \in blocks : b <= c
         IN  <<least>> \o AscendingSeq(blocks \ {least})
ControlFlowGraphs ==
    UNION {
        { body \in [1 .. n -> {AscendingSeq(ps) : ps \in SUBSET (0 .. n - 1)}] :
            /\ body[1] = <<>>
            /\ ReachableAvoiding(body, -1, {0}) = 0 .. n - 1 }
        : n \in 1 .. MaxBlocks }

SortInit ==
    /\ fp_body \in ControlFlowGraphs
    /\ fp_cleanup = {}
    /\ fp_exits = <<>>
    /\ block_indices = <<>>
    /\ loop_anchors = {}
    /\ already_visited = {}
    /\ in_state = <<>>
    /\ out_state = <<>>
    /\ terminator_state = <<>>
    /\ fp_stack = <<>>
    /\ visit_pos = 1
    /\ fp_done = FALSE
    /\ fp_last_exit = None
    /\ fp_visit = None
    /\ interpreted = [bb \in BasicBlocks(fp_body) |-> 0]

\* FixedPointVisitor::new: the call of get_sorted_block_indices.
GetSortedBlockIndices ==
    /\ ~fp_done
    /\ block_indices' = get_sorted_block_indices(fp_body).block_indices
    /\ loop_anchors' = get_sorted_block_indices(fp_body).loop_anchors
    /\ fp_done' = TRUE
    /\ UNCHANGED <<fp_body, fp_cleanup, fp_exits, already_visited, in_state, out_state,
                   terminator_state, fp_stack, visit_pos, fp_last_exit, fp_visit,
                   interpreted>>

\* Conditions.  A condition is a disjunction of conjunctions of atoms: the atom
\* "x" depends on the path whose value value_map abstracts, the atom "c" does not.
TrueCondition == {{}}
FalseCondition == {}
Atom(name) == {{name}}
\* AbstractValue::or, and, as_bool_if_known on these conditions
or(c1, c2) == IF {} \in c1 \cup c2 THEN TrueCondition ELSE c1 \cup c2
and(c1, c2) == {p \cup q : p \in c1, q \in c2}
condition_as_bool_if_known(c) ==
    IF c = TrueCondition THEN Some(TRUE)
    ELSE IF c = FalseCondition THEN Some(FALSE)
    ELSE None
\* AbstractValue::remove_conjuncts_that_depend_on: the conjuncts of a
\* conjunction that depend on a variant are dropped; a disjunction is one
\* conjunct, which is dropped (leaving true) when it depends on a variant.
remove_conjuncts_that_depend_on(c, variants) ==
    IF c = FalseCondition THEN c
    ELSE IF Cardinality(c) = 1 THEN {conjunction \ variants : conjunction \in c}
    ELSE IF \E conjunction \in c : conjunction \cap variants # {} THEN TrueCondition
    ELSE c

\* The value of the path in a value map: a constant of the chain of values,
\* or a conditional expression over such values.
ConstantValue(n) == <<"const", n>>
\* AbstractValue::conditional_expression
conditional_expression(condition, consequent, alternate) ==
    IF condition = TrueCondition THEN consequent
    ELSE IF condition = FalseCondition THEN alternate
    ELSE IF consequent = alternate THEN consequent
    ELSE <<"if", condition, consequent, alternate>>
\* The place of a value in the chain: the largest constant it can be.
RECURSIVE upper_bound(_)
upper_bound(value) ==
    IF value[1] = "const" THEN value[2]
    ELSE LET a == upper_bound(value[3])
             b == upper_bound(value[4])
         IN  IF a >= b THEN a ELSE b

\* Environments.
NoExitConditions == <<>>
Environment(v, entry, exits) ==
    [value_map |-> v, entry_condition |-> entry, exit_conditions |-> exits]
DefaultEnvironment == Environment(ConstantValue(0), TrueCondition, NoExitConditions)
first_environment == Environment(ConstantValue(0), TrueCondition, NoExitConditions)

Max(a, b) == IF a >= b THEN a ELSE b
\* Environment::join, widen and subset on the chain of values; widen leaves
\* the chain of the values a block can produce for the value above them.
TopValue == MaxValue + 1
join(e1, e2) ==
    [e2 EXCEPT !.value_map =
        ConstantValue(Max(upper_bound(e1.value_map), upper_bound(e2.value_map)))]
widen(e1, e2) ==
    [e2 EXCEPT !.value_map =
        IF upper_bound(e2.value_map) <= upper_bound(e1.value_map)
        THEN ConstantValue(upper_bound(e1.value_map)) ELSE ConstantValue(TopValue)]
subset(e1, e2) == upper_bound(e1.value_map) <= upper_bound(e2.value_map)
\* Environment::conditional_join: per path, if self_cond then the value of
\* self else the value of other.
conditional_join(self, other, self_cond, other_cond) ==
    Environment(conditional_expression(self_cond, self.value_map, other.value_map),
                or(self_cond, other_cond), NoExitConditions)
\* Environment::get_loop_variants: the paths whose values differ.
get_loop_variants(e1, e2) == IF e1.value_map # e2.value_map THEN {"x"} ELSE {}

\* What the terminator of a block leaves in exit_conditions, given the entry
\* condition of the block: a condition for every successor, for the successors
\* that are not reached by unwinding only, a guard on every edge, or false.
ExitKinds ==
    {"every successor", "not the cleanup blocks", "guard x", "guard c", "unreachable"}
exit_conditions_of(kind, entry, succs, cleanup) ==
    IF kind = "every successor" THEN [bb \in succs |-> entry]
    ELSE IF kind = "not the cleanup blocks" THEN [bb \in succs \ cleanup |-> entry]
    ELSE IF kind = "guard x" THEN [bb \in succs |-> and(entry, Atom("x"))]
    ELSE IF kind = "guard c" THEN [bb \in succs |-> and(entry, Atom("c"))]
    ELSE [bb \in succs |-> FalseCondition]

predecessor_state_and_condition_keeping_known_false(vis, bb, iteration_count, pred_bb) ==
    LET is_loop_back == dominates(vis.body, bb, pred_bb)
        pred_state == vis.out_state[pred_bb]
    IN  IF iteration_count = 1 /\ is_loop_back THEN None
        ELSE IF iteration_count > 1 /\ ~is_loop_back THEN None
        ELSE IF bb \in DOMAIN pred_state.exit_conditions
        THEN Some([pred_bb |-> pred_bb, condition |-> pred_state.exit_conditions[bb],
                   taken_from |-> "out_state",
                   state |-> pred_state])
        ELSE IF bb \in vis.cleanup
        THEN Some([pred_bb |-> pred_bb, condition |-> TrueCondition,
                   taken_from |-> "terminator_state",
                   state |-> vis.terminator_state[pred_bb]])
        ELSE None
predecessor_state_and_condition_with_out_state_for_cleanup(vis, bb, iteration_count, pred_bb) ==
    LET is_loop_back == dominates(vis.body, bb, pred_bb)
        pred_state == vis.out_state[pred_bb]
    IN  IF iteration_count = 1 /\ is_loop_back THEN None
        ELSE IF iteration_count > 1 /\ ~is_loop_back THEN None
        ELSE IF bb \in DOMAIN pred_state.exit_conditions
        THEN IF unwrap_or(condition_as_bool_if_known(pred_state.exit_conditions[bb]), TRUE)
             THEN Some([pred_bb |-> pred_bb, condition |-> pred_state.exit_conditions[bb],
                        taken_from |-> "out_state",
                        state |-> pred_state])
             ELSE None
        ELSE IF bb \in vis.cleanup
        THEN Some([pred_bb |-> pred_bb, condition |-> TrueCondition,
                   taken_from |-> "terminator_state",
                   state |-> pred_state])
        ELSE None
predecessor_state_and_condition_at_any_iteration(vis, bb, iteration_count, pred_bb) ==
    LET pred_state == vis.out_state[pred_bb]
    IN  IF bb \in DOMAIN pred_state.exit_conditions
        THEN Some([pred_bb |-> pred_bb, condition |-> pred_state.exit_conditions[bb],
                   taken_from |-> "out_state",
                   state |-> pred_state])
        ELSE None
\* get_initial_state_from_predecessors: what the closure of filter_map makes
\* of the predecessor pred_bb; vis is the visitor.
predecessor_state_and_condition(vis, bb, iteration_count, pred_bb) ==
    LET is_loop_back == dominates(vis.body, bb, pred_bb)
        pred_state == vis.out_state[pred_bb]
    IN  IF iteration_count = 1 /\ is_loop_back THEN None
        ELSE IF iteration_count > 1 /\ ~is_loop_back THEN None
        ELSE IF bb \in DOMAIN pred_state.exit_conditions
        THEN IF unwrap_or(condition_as_bool_if_known(pred_state.exit_conditions[bb]), TRUE)
             THEN Some([pred_bb |-> pred_bb, condition |-> pred_state.exit_conditions[bb],
                        taken_from |-> "out_state",
                        state |-> pred_state])
             ELSE None
        ELSE IF bb \in vis.cleanup
        THEN Some([pred_bb |-> pred_bb, condition |-> TrueCondition,
                   taken_from |-> "terminator_state",
                   state |-> vis.terminator_state[pred_bb]])
        ELSE None
\* The vector filter_map collects, in the order of predecessors()[bb].
RECURSIVE predecessor_states_and_conditions_from(_, _, _, _)
predecessor_states_and_conditions_from(vis, bb, iteration_count, i) ==
    IF i > Len(predecessors(vis.body, bb)) THEN <<>>
    ELSE LET sc == predecessor_state_and_condition(vis, bb, iteration_count,
                                                   predecessors(vis.body, bb)[i])
             rest == predecessor_states_and_conditions_from(vis, bb, iteration_count, i + 1)
         IN  IF sc = None THEN rest ELSE <<sc[1]>> \o rest
predecessor_states_and_conditions(vis, bb, iteration_count) ==
    predecessor_states_and_conditions_from(vis, bb, iteration_count, 1)
\* reduce(|c1, c2| c1.or(c2)) over the conditions
RECURSIVE JoinedCondition(_, _, _)
JoinedCondition(scs, i, c1) ==
    IF i > Len(scs) THEN c1 ELSE JoinedCondition(scs, i + 1, or(c1, scs[i].condition))
\* reduce(|(state1, cond1), (state2, cond2)|
\*            (state2.conditional_join(state1, &cond2, &cond1), cond1))
reduce_with_condition_of_first(state1, cond1, state2, cond2) ==
    conditional_join(state2, state1, cond1, cond1)
reduce_states(state1, cond1, state2, cond2) ==
    conditional_join(state2, state1, cond2, cond1)
RECURSIVE JoinedState(_, _, _, _)
JoinedState(scs, i, state1, cond1) ==
    IF i > Len(scs) THEN state1
    ELSE JoinedState(scs, i + 1,
                     reduce_states(state1, cond1, scs[i].state, scs[i].condition), cond1)
get_initial_state_from_predecessors(vis, bb, iteration_count) ==
    LET scs == predecessor_states_and_conditions(vis, bb, iteration_count)
    IN  IF scs = <<>>
        THEN [first_environment EXCEPT !.entry_condition = FalseCondition]
        ELSE IF Len(scs) = 1
        THEN Environment(scs[1].state.value_map, scs[1].condition, NoExitConditions)
        ELSE Environment(JoinedState(scs, 2, scs[1].state, scs[1].condition).value_map,
                         JoinedCondition(scs, 2, scs[1].condition), NoExitConditions)

initial_state_removing_conjuncts_at_every_iteration(vis, bb, iteration_count) ==
    LET i_state == IF iteration_count = 0 /\ bb = 0
                   THEN first_environment
                   ELSE get_initial_state_from_predecessors(vis, bb, iteration_count)
        invariant_entry_condition ==
            remove_conjuncts_that_depend_on(vis.in_state[bb].entry_condition,
                                            get_loop_variants(vis.in_state[bb], i_state))
    IN  IF iteration_count = 2
        THEN [join(vis.in_state[bb], i_state)
                 EXCEPT !.entry_condition = invariant_entry_condition]
        ELSE IF iteration_count >= 3
        THEN [widen(vis.in_state[bb], i_state)
                 EXCEPT !.entry_condition = invariant_entry_condition]
        ELSE i_state
initial_state_widening_from_iteration_2(vis, bb, iteration_count) ==
    LET i_state == IF iteration_count = 0 /\ bb = 0
                   THEN first_environment
                   ELSE get_initial_state_from_predecessors(vis, bb, iteration_count)
    IN  IF iteration_count >= 2
        THEN [widen(vis.in_state[bb], i_state)
                 EXCEPT !.entry_condition = vis.in_state[bb].entry_condition]
        ELSE i_state
\* The in-state visit_basic_block gives to bb.
initial_state(vis, bb, iteration_count) ==
    LET i_state == IF iteration_count = 0 /\ bb = 0
                   THEN first_environment
                   ELSE get_initial_state_from_predecessors(vis, bb, iteration_count)
        previous_state == vis.in_state[bb]
        loop_variants == get_loop_variants(previous_state, i_state)
        invariant_entry_condition ==
            remove_conjuncts_that_depend_on(previous_state.entry_condition, loop_variants)
    IN  IF iteration_count = 2
        THEN [join(previous_state, i_state)
                 EXCEPT !.entry_condition = invariant_entry_condition]
        ELSE IF iteration_count = 3
        THEN [widen(previous_state, i_state)
                 EXCEPT !.entry_condition = invariant_entry_condition]
        ELSE IF iteration_count > 3
        THEN [widen(previous_state, i_state)
                 EXCEPT !.entry_condition = previous_state.entry_condition]
        ELSE i_state

\* The fields of the visitor get_initial_state_from_predecessors reads.
Visitor ==
    [in_state |-> in_state, out_state |-> out_state, terminator_state |-> terminator_state,
     body |-> fp_body, cleanup |-> fp_cleanup]

FixedPointWarning == <<"Fixed point loop iterations exceeded limit of ", MAX_FIXPOINT_ITERATIONS>>

\* The loops over block_indices skip the blocks that are visited already,
\* and visit_loop_body also those that the loop anchor does not dominate:
\* the first position from pos on that is not skipped.
RECURSIVE NextUnvisited(_, _)
NextUnvisited(pos, visited) ==
    IF pos > Len(block_indices) \/ block_indices[pos] \notin visited
    THEN pos ELSE NextUnvisited(pos + 1, visited)
RECURSIVE NextLoopBodyBlock_without_dominance(_, _, _)
NextLoopBodyBlock_without_dominance(pos, loop_anchor, visited) ==
    IF pos > Len(block_indices) \/ block_indices[pos] \notin visited
    THEN pos ELSE NextLoopBodyBlock_without_dominance(pos + 1, loop_anchor, visited)
RECURSIVE NextLoopBodyBlock(_, _, _)
NextLoopBodyBlock(pos, loop_anchor, visited) ==
    IF pos > Len(block_indices)
       \/ (/\ block_indices[pos] \notin visited
           /\ dominates(fp_body, loop_anchor, block_indices[pos]))
    THEN pos ELSE NextLoopBodyBlock(pos + 1, loop_anchor, visited)

\* The activation of compute_fixed_point (and of the visit_loop_body it has
\* called) that is running: the innermost frame of fp_stack.  Two fields are
\* history: the entry condition the loop anchor got in iteration 3, and the
\* number of times the loop anchor was interpreted.
TopFrame == fp_stack[Len(fp_stack)]
NewFrame(loop_anchor) ==
    [iteration_count |-> 1,
     pos |-> NextLoopBodyBlock(1, loop_anchor, already_visited),
     loop_anchor |-> loop_anchor,
     changed |-> FALSE, last_block |-> loop_anchor,
     saved_already_visited |-> already_visited,
     old_state |-> out_state,
     entry_condition_at_3 |-> None,
     anchor_visits |-> 0]
ReplaceTop(frame) == [fp_stack EXCEPT ![Len(fp_stack)] = frame]

\* check_for_early_break: a check point has found the budget used up before.
early_break_taken == analysis_is_incomplete

\* The interpretations of a block are counted up to MaxCounted.
MaxCounted == 2

\* visit_basic_block.  The interpretation of the block leaves the value v; a
\* block whose terminator has an unwind edge writes v with its terminator, so
\* that terminator_state keeps the value of the in-state.
visit_basic_block(bb, iteration_count, v) ==
    LET i_state == initial_state(Visitor, bb, iteration_count)
        before_terminator ==
            IF fp_exits[bb] = "not the cleanup blocks"
            THEN i_state.value_map ELSE ConstantValue(v)
    IN  /\ in_state' = [in_state EXCEPT ![bb] = i_state]
        /\ terminator_state' = [terminator_state EXCEPT ![bb] =
               Environment(before_terminator, i_state.entry_condition, NoExitConditions)]
        /\ out_state' = [out_state EXCEPT ![bb] =
               Environment(ConstantValue(v), i_state.entry_condition,
                           exit_conditions_of(fp_exits[bb], i_state.entry_condition,
                                              successors(fp_body, bb), fp_cleanup))]
        /\ already_visited' = already_visited \cup {bb}
        /\ interpreted' = [interpreted EXCEPT ![bb] = IF @ < MaxCounted THEN @ + 1 ELSE @]
        /\ fp_visit' = Some(
               [bb |-> bb, iteration_count |-> iteration_count,
                previous_state |-> in_state[bb],
                from_predecessors |->
                    IF iteration_count = 0 /\ bb = 0 THEN first_environment
                    ELSE get_initial_state_from_predecessors(Visitor, bb, iteration_count),
                taken |-> IF iteration_count = 0 /\ bb = 0 THEN {}
                          ELSE SeqRange(predecessor_states_and_conditions(Visitor, bb,
                                                                          iteration_count)),
                known_false |->
                    {p \in SeqRange(predecessors(fp_body, bb)) :
                        /\ bb \in DOMAIN out_state[p].exit_conditions
                        /\ out_state[p].exit_conditions[bb] = FalseCondition}])

\* What visit_loop_body does after a block or a nested loop: the fixed point test.
is_changed_without_subset_test(frame, out, last_block) == frame.changed
is_changed(frame, out, last_block) ==
    \/ frame.changed
    \/ frame.iteration_count > 3 /\ ~subset(out[last_block], frame.old_state[last_block])

FpInit ==
    /\ fp_body \in Bodies
    /\ fp_cleanup = {}
    /\ fp_exits = [bb \in BasicBlocks(fp_body) |-> "every successor"]
    /\ block_indices = get_sorted_block_indices(fp_body).block_indices
    /\ loop_anchors = get_sorted_block_indices(fp_body).loop_anchors
    /\ already_visited = {}
    /\ in_state = [bb \in BasicBlocks(fp_body) |-> DefaultEnvironment]
    /\ out_state = [bb \in BasicBlocks(fp_body) |-> DefaultEnvironment]
    /\ terminator_state = [bb \in BasicBlocks(fp_body) |-> DefaultEnvironment]
    /\ fp_stack = <<>>
    /\ visit_pos = 1
    /\ fp_done = FALSE
    /\ fp_last_exit = None
    /\ fp_visit = None
    /\ interpreted = [bb \in BasicBlocks(fp_body) |-> 0]

\* A loop whose blocks may unwind to the cleanup block 3:
\* 0 -> 1, 1 -> 2, 2 -> 1, 1 -> 3, 2 -> 3; the terminators are of any kind.
UnwindingLoopBody == <<<<>>, <<0, 2>>, <<1>>, <<1, 2>>>>
GuardedInit ==
    /\ fp_body = UnwindingLoopBody
    /\ fp_cleanup = {3}
    /\ fp_exits \in {exits \in [BasicBlocks(fp_body) -> ExitKinds] :
                        exits[3] = "every successor"}
    /\ block_indices = get_sorted_block_indices(fp_body).block_indices
    /\ loop_anchors = get_sorted_block_indices(fp_body).loop_anchors
    /\ already_visited = {}
    /\ in_state = [bb \in BasicBlocks(fp_body) |-> DefaultEnvironment]
    /\ out_state = [bb \in BasicBlocks(fp_body) |-> DefaultEnvironment]
    /\ terminator_state = [bb \in BasicBlocks(fp_body) |-> DefaultEnvironment]
    /\ fp_stack = <<>>
    /\ visit_pos = 1
    /\ fp_done = FALSE
    /\ fp_last_exit = None
    /\ fp_visit = None
    /\ interpreted = [bb \in BasicBlocks(fp_body) |-> 0]

\* A block with three predecessors: 0 -> 1, 0 -> 2, 0 -> 3, 1 -> 4, 2 -> 4, 3 -> 4.
ThreeWayJoinBody == <<<<>>, <<0>>, <<0>>, <<0>>, <<1, 2, 3>>>>
JoinInit ==
    /\ fp_body = ThreeWayJoinBody
    /\ fp_cleanup = {}
    /\ fp_exits \in {exits \in [BasicBlocks(fp_body) ->
                                   ExitKinds \ {"not the cleanup blocks"}] :
                        exits[4] = "every successor"}
    /\ block_indices = get_sorted_block_indices(fp_body).block_indices
    /\ loop_anchors = get_sorted_block_indices(fp_body).loop_anchors
    /\ already_visited = {}
    /\ in_state = [bb \in BasicBlocks(fp_body) |-> DefaultEnvironment]
    /\ out_state = [bb \in BasicBlocks(fp_body) |-> DefaultEnvironment]
    /\ terminator_state = [bb \in BasicBlocks(fp_body) |-> DefaultEnvironment]
    /\ fp_stack = <<>>
    /\ visit_pos = 1
    /\ fp_done = FALSE
    /\ fp_last_exit = None
    /\ fp_visit = None
    /\ interpreted = [bb \in BasicBlocks(fp_body) |-> 0]

\* A loop and a branch around it: 0 -> 1, 0 -> 3, 1 -> 2, 2 -> 1, 1 -> 3.
BranchAroundLoopBody == <<<<>>, <<0, 2>>, <<1>>, <<0, 1>>>>
VisitInit ==
    /\ fp_body \in {BranchAroundLoopBody, NestedLoopBody}
    /\ fp_cleanup = {}
    /\ fp_exits = [bb \in BasicBlocks(fp_body) |-> "every successor"]
    /\ block_indices = get_sorted_block_indices(fp_body).block_indices
    /\ loop_anchors = get_sorted_block_indices(fp_body).loop_anchors
    /\ already_visited = {}
    /\ in_state = [bb \in BasicBlocks(fp_body) |-> DefaultEnvironment]
    /\ out_state = [bb \in BasicBlocks(fp_body) |-> DefaultEnvironment]
    /\ terminator_state = [bb \in BasicBlocks(fp_body) |-> DefaultEnvironment]
    /\ fp_stack = <<>>
    /\ visit_pos = 1
    /\ fp_done = FALSE
    /\ fp_last_exit = None
    /\ fp_visit = None
    /\ interpreted = [bb \in BasicBlocks(fp_body) |-> 0]

FpIdle ==
    /\ fp_body = SimpleLoopBody
    /\ fp_cleanup = {}
    /\ fp_exits = <<>>
    /\ block_indices = <<>>
    /\ loop_anchors = {}
    /\ already_visited = {}
    /\ in_state = <<>>
    /\ out_state = <<>>
    /\ terminator_state = <<>>
    /\ fp_stack = <<>>
    /\ visit_pos = 1
    /\ fp_done = TRUE
    /\ fp_last_exit = None
    /\ fp_visit = None
    /\ interpreted = [bb \in BasicBlocks(fp_body) |-> 0]

fpFixed == <<fp_body, fp_cleanup, fp_exits, block_indices, loop_anchors>>

\* visit_blocks: the loop over block_indices is at its end.
VisitBlocksEnd ==
    /\ ~fp_done /\ fp_stack = <<>>
    /\ visit_pos > Len(block_indices)
    /\ fp_done' = TRUE
    /\ UNCHANGED <<fpFixed, already_visited, in_state, out_state, terminator_state,
                   fp_visit, interpreted, fp_stack, visit_pos,
                   fp_last_exit, analysis_is_incomplete, diagVars>>

\* visit_blocks: the check point breaks the loop over block_indices.
VisitBlocksBreak ==
    /\ ~fp_done /\ fp_stack = <<>>
    /\ visit_pos <= Len(block_indices)
    /\ fp_done' = TRUE
    /\ analysis_is_incomplete' = TRUE
    /\ UNCHANGED <<fpFixed, already_visited, in_state, out_state, terminator_state,
                   fp_visit, interpreted, fp_stack, visit_pos,
                   fp_last_exit, diagVars>>

\* visit_blocks: a block that is not a loop anchor.
VisitBlocksVisit(v) ==
    /\ ~fp_done /\ fp_stack = <<>>
    /\ visit_pos <= Len(block_indices) /\ ~early_break_taken
    /\ block_indices[visit_pos] \notin loop_anchors
    /\ visit_basic_block(block_indices[visit_pos], 0, v)
    /\ visit_pos' = NextUnvisited(visit_pos + 1, already_visited')
    /\ UNCHANGED <<fpFixed, fp_stack, fp_done, fp_last_exit, analysis_is_incomplete,
                   diagVars>>

\* visit_blocks: compute_fixed_point is entered for a loop anchor.
VisitBlocksLoop ==
    /\ ~fp_done /\ fp_stack = <<>>
    /\ visit_pos <= Len(block_indices) /\ ~early_break_taken
    /\ block_indices[visit_pos] \in loop_anchors
    /\ fp_stack' = <<NewFrame(block_indices[visit_pos])>>
    /\ UNCHANGED <<fpFixed, already_visited, in_state, out_state, terminator_state,
                   fp_visit, interpreted, visit_pos, fp_done,
                   fp_last_exit, analysis_is_incomplete, diagVars>>

InLoopBody == fp_stack # <<>> /\ TopFrame.pos <= Len(block_indices)

\* visit_loop_body: the check point breaks the loop over the blocks.
LoopBodyBreak ==
    /\ InLoopBody
    /\ fp_stack' = ReplaceTop([TopFrame EXCEPT !.pos = Len(block_indices) + 1])
    /\ analysis_is_incomplete' = TRUE
    /\ UNCHANGED <<fpFixed, already_visited, in_state, out_state, terminator_state,
                   fp_visit, interpreted, visit_pos, fp_done,
                   fp_last_exit, diagVars>>

\* visit_loop_body: the loop anchor, or a block that is not a loop anchor.
LoopBodyVisit(v) ==
    /\ InLoopBody /\ ~early_break_taken
    /\ LET frame == TopFrame
           bb == block_indices[frame.pos]
       IN  /\ bb = frame.loop_anchor \/ bb \notin loop_anchors
           /\ visit_basic_block(bb, IF bb = frame.loop_anchor
                                    THEN frame.iteration_count ELSE 0, v)
           /\ fp_stack' = ReplaceTop(
                  [frame EXCEPT !.last_block = bb,
                                !.changed = is_changed(frame, out_state', bb),
                                !.entry_condition_at_3 =
                                    IF bb = frame.loop_anchor /\ frame.iteration_count = 3
                                    THEN Some(in_state'[bb].entry_condition) ELSE @,
                                !.anchor_visits =
                                    IF bb = frame.loop_anchor THEN @ + 1 ELSE @,
                                !.pos = NextLoopBodyBlock(frame.pos + 1, frame.loop_anchor,
                                                          already_visited')])
    /\ UNCHANGED <<fpFixed, visit_pos, fp_done, fp_last_exit, analysis_is_incomplete,
                   diagVars>>

\* visit_loop_body: compute_fixed_point is entered for the anchor of a nested loop.
LoopBodyNested ==
    /\ InLoopBody /\ ~early_break_taken
    /\ LET frame == TopFrame
           bb == block_indices[frame.pos]
       IN  /\ bb # frame.loop_anchor /\ bb \in loop_anchors
           /\ fp_stack' = Append(ReplaceTop([frame EXCEPT !.last_block = bb]),
                                 NewFrame(bb))
    /\ UNCHANGED <<fpFixed, already_visited, in_state, out_state, terminator_state,
                   fp_visit, interpreted, visit_pos, fp_done,
                   fp_last_exit, analysis_is_incomplete, diagVars>>

\* compute_fixed_point: the condition of its while loop.
loop_condition_without_minimum(iteration_count, changed) == changed
loop_condition(iteration_count, changed) == iteration_count <= 4 \/ changed

AtLoopBodyEnd == fp_stack # <<>> /\ TopFrame.pos > Len(block_indices)

\* compute_fixed_point: visit_loop_body has returned and the loop goes on.
LoopIterate ==
    /\ AtLoopBodyEnd /\ ~early_break_taken
    /\ TopFrame.iteration_count < MAX_FIXPOINT_ITERATIONS
    /\ loop_condition(TopFrame.iteration_count + 1, TopFrame.changed)
    /\ fp_stack' = ReplaceTop(
           [TopFrame EXCEPT !.iteration_count = @ + 1,
                            !.changed = FALSE,
                            !.last_block = TopFrame.loop_anchor,
                            !.old_state = out_state,
                            !.pos = NextLoopBodyBlock(1, TopFrame.loop_anchor,
                                                      TopFrame.saved_already_visited)])
    /\ already_visited' = TopFrame.saved_already_visited
    /\ UNCHANGED <<fpFixed, in_state, out_state, terminator_state, fp_visit, interpreted,
                   visit_pos,
                   fp_done, fp_last_exit,
                   analysis_is_incomplete, diagVars>>

\* compute_fixed_point returns last_block: what follows its loop, and what
\* the caller does with the result.  why tells how the loop was left.
ReturnFromFixedPoint(frame, iteration_count, why) ==
    /\ IF /\ iteration_count >= MAX_FIXPOINT_ITERATIONS
          /\ frame.changed
          /\ diag_ctx.diag_level = "Paranoid"
       THEN /\ emitted' = Append(emitted, FixedPointWarning)
            /\ buffered_diagnostics' =
                  emit_diagnostic(buffered_diagnostics, diag_ctx, FixedPointWarning)
       ELSE UNCHANGED <<emitted, buffered_diagnostics>>
    /\ IF Len(fp_stack) > 1
       THEN LET caller == fp_stack[Len(fp_stack) - 1]
            IN  /\ fp_stack' = [SubSeq(fp_stack, 1, Len(fp_stack) - 1)
                                   EXCEPT ![Len(fp_stack) - 1] =
                                       [caller EXCEPT
                                           !.last_block = frame.last_block,
                                           !.changed = is_changed(caller, out_state,
                                                                  frame.last_block),
                                           !.pos = NextLoopBodyBlock(caller.pos + 1,
                                                      caller.loop_anchor,
                                                      already_visited)]]
                /\ UNCHANGED visit_pos
       ELSE /\ fp_stack' = <<>>
            /\ visit_pos' = NextUnvisited(visit_pos + 1, already_visited)
    /\ fp_last_exit' = Some(
          [why |-> why,
           loop_anchor |-> frame.loop_anchor,
           changed |-> frame.changed,
           anchor_visits |-> frame.anchor_visits,
           not_subset |-> {b \in BasicBlocks(fp_body) :
                              /\ dominates(fp_body, frame.loop_anchor, b)
                              /\ ~subset(out_state[b], frame.old_state[b])}])
    /\ UNCHANGED <<fpFixed, already_visited, in_state, out_state, terminator_state,
                   fp_visit, interpreted, fp_done, diag_ctx>>

\* compute_fixed_point: the check point after visit_loop_body breaks the loop.
LoopBreakEarly ==
    /\ AtLoopBodyEnd
    /\ analysis_is_incomplete' = TRUE
    /\ ReturnFromFixedPoint(TopFrame, TopFrame.iteration_count, "early break")

\* compute_fixed_point: the iteration count has reached MAX_FIXPOINT_ITERATIONS.
LoopCapReached ==
    /\ AtLoopBodyEnd /\ ~early_break_taken
    /\ TopFrame.iteration_count >= MAX_FIXPOINT_ITERATIONS
    /\ UNCHANGED analysis_is_incomplete
    /\ ReturnFromFixedPoint(TopFrame, TopFrame.iteration_count, "iteration limit")

\* compute_fixed_point: the condition of the while loop is false.
LoopConverged ==
    /\ AtLoopBodyEnd /\ ~early_break_taken
    /\ TopFrame.iteration_count < MAX_FIXPOINT_ITERATIONS
    /\ ~loop_condition(TopFrame.iteration_count + 1, TopFrame.changed)
    /\ UNCHANGED analysis_is_incomplete
    /\ ReturnFromFixedPoint(TopFrame, TopFrame.iteration_count + 1, "loop condition")

(***************************************************************************)
(* Unions and tags (body_visitor.rs): update_value_at for a union field,   *)
(* copy_and_transmute, copy_field_bits and attach_tag_to_value_at_path.    *)
(* A scalar value is a constant bit pattern or an unknown; a Tagged value  *)
(* holds its operand and the tags attached to it.                          *)
(***************************************************************************)
\* Types: a scalar type is named by its ExpressionType.
ScalarType(name) == [kind |-> "Scalar", fields |-> <<name>>]
TupleType(names) == [kind |-> "Tuple", fields |-> names]
UnionType(field_types) == [kind |-> "Union", fields |-> field_types]
is_scalar(ty) == ty.kind = "Scalar"
\* ExpressionType::bit_length
bit_length(name) == IF name = "U8" THEN 8 ELSE 16
RECURSIVE Pow2(_)
Pow2(n) == IF n = 0 THEN 1 ELSE 2 * Pow2(n - 1)

\* Tags: a name and the TagPropagation kinds of its mask.
BitOperations == {"Rem", "Shr", "Shl", "Add", "Transmute"}
TagAll == [propagation |-> BitOperations \cup {"SubComponent"}, name |-> "A"]
TagSub == [propagation |-> {"SubComponent"}, name |-> "S"]
TagNone == [propagation |-> {}, name |-> "N"]
Tags == {TagAll, TagSub, TagNone}
is_propagated_by(tag, kind) == kind \in tag.propagation

\* Values.
Const(bits, name) == <<"Const", [ty |-> name, bits |-> bits]>>
UnknownValue == <<"Unknown", 0>>
DUMMY_UNTAGGED_VALUE == <<"DummyUntagged", 0>>
UnknownTagField(path) == <<"UnknownTagField", path>>
Tagged(operand, tags) ==
    IF tags = {} THEN operand ELSE <<"Tagged", [operand |-> operand, tags |-> tags]>>
operand_of(value) == IF value[1] = "Tagged" THEN value[2].operand ELSE value
tags_of(value) == IF value[1] = "Tagged" THEN value[2].tags ELSE {}
\* AbstractValue::add_tag and has_tag
add_tag(value, tag) == Tagged(operand_of(value), tags_of(value) \cup {tag})
has_tag(value, tag) == tag \in tags_of(value)
\* The tags an expression of the given kind takes over from its operand.
propagated_tags(value, kind) == {t \in tags_of(value) : is_propagated_by(t, kind)}

\* The operations copy_field_bits applies to values; the number of bits of
\* the result of a shift to the left is that of the widest scalar type.
unsigned_modulo(value, num_bits) ==
    LET v == operand_of(value)
    IN  Tagged(IF v[1] = "Const"
               THEN Const(v[2].bits % Pow2(num_bits), v[2].ty) ELSE UnknownValue,
               propagated_tags(value, "Rem"))
unsigned_shift_right(value, num_bits) ==
    LET v == operand_of(value)
    IN  Tagged(IF v[1] = "Const"
               THEN Const(v[2].bits \div Pow2(num_bits), v[2].ty) ELSE UnknownValue,
               propagated_tags(value, "Shr"))
unsigned_shift_left(value, num_bits) ==
    LET v == operand_of(value)
    IN  Tagged(IF v[1] = "Const"
               THEN Const((v[2].bits * Pow2(num_bits)) % Pow2(16), v[2].ty)
               ELSE UnknownValue,
               propagated_tags(value, "Shl"))
addition(left, right) ==
    LET l == operand_of(left)
        r == operand_of(right)
    IN  Tagged(IF l[1] = "Const" /\ r[1] = "Const"
               THEN Const((l[2].bits + r[2].bits) % Pow2(16), l[2].ty)
               ELSE UnknownValue,
               propagated_tags(left, "Add") \cup propagated_tags(right, "Add"))
transmute(value, name) ==
    LET v == operand_of(value)
    IN  Tagged(IF v[1] = "Const"
               THEN Const(v[2].bits % Pow2(bit_length(name)), name) ELSE UnknownValue,
               propagated_tags(value, "Transmute"))
\* Expression::infer_type with the type the value is expected to have.
infer_type(value, name) ==
    LET v == operand_of(value)
    IN  IF v[1] = "Const" THEN v[2].ty ELSE name

\* Paths of unions and tuples.
UnionFieldSelectors == <<"UnionField0", "UnionField1">>
FieldSelectors == <<"Field0", "Field1", "Field2">>
new_union_field(qualifier, case_index, num_cases) ==
    new_qualified(qualifier, UnionFieldSelectors[case_index + 1])
is_union_field(selector) == selector \in SeqRange(UnionFieldSelectors)
case_index_of(selector) ==
    (CHOOSE i \in 1 .. Len(UnionFieldSelectors) : UnionFieldSelectors[i] = selector) - 1
new_tuple_field(path, i) == new_field(path, FieldSelectors[i + 1])
new_tag_field(path) == new_qualified(path, "TagField")
new_computed(value) == [value |-> <<"Computed", value>>, selectors |-> <<>>]

UnionNotInitializedWarning == "The union is not fully initialized by this assignment"

\* copy_field_bits: the loop for a target field that needs the bits of more
\* than one source field.  l holds the locals of the loop.
RECURSIVE copy_bits_of_next_source_fields(_, _, _, _)
copy_bits_of_next_source_fields(s, c, target, l) ==
    LET source_field_index == l.source_field_index + 1
    IN  IF source_field_index >= Len(c.source_fields)
        THEN [s |-> emit_warning(s, c.ctx, UnionNotInitializedWarning),
              source_field_index |-> source_field_index,
              copied_source_bits |-> l.copied_source_bits]
        ELSE LET source == c.source_fields[source_field_index + 1]
                 source_path == canonicalize(source.path, s.value_map)
                 source_bits == bit_length(source.ty)
                 next_val == unsigned_shift_left(
                                 unsigned_modulo(
                                     lookup_path_and_refine_result(s.value_map, source_path),
                                     l.target_bits_to_write),
                                 l.written_target_bits)
                 val == addition(next_val, l.val)
             IN  IF source_bits >= l.target_bits_to_write
                 THEN [s |-> [s EXCEPT !.value_map =
                                 strong_update_value_at(@, target.path,
                                                        transmute(val, target.ty))],
                       source_field_index |->
                           IF source_bits = l.target_bits_to_write
                           THEN source_field_index + 1 ELSE source_field_index,
                       copied_source_bits |->
                           IF source_bits = l.target_bits_to_write
                           THEN 0 ELSE l.target_bits_to_write]
                 ELSE copy_bits_of_next_source_fields(s, c, target,
                          [l EXCEPT !.val = val,
                                    !.source_field_index = source_field_index,
                                    !.target_bits_to_write = @ - source_bits,
                                    !.written_target_bits = @ + source_bits])

\* copy_field_bits: the target fields from position t on; c holds the source
\* fields and the target fields, st the source field index and the number
\* of its bits that are copied already.
RECURSIVE copy_field_bits_from(_, _, _, _)
copy_field_bits_from(s, c, t, st) ==
    IF t > Len(c.target_fields) THEN s
    ELSE IF st.source_field_index >= Len(c.source_fields)
    THEN emit_warning(s, c.ctx, UnionNotInitializedWarning)
    ELSE LET target == c.target_fields[t]
             source == c.source_fields[st.source_field_index + 1]
             source_path == canonicalize(source.path, s.value_map)
             looked_up == lookup_path_and_refine_result(s.value_map, source_path)
             val == IF st.copied_source_bits > 0
                    THEN unsigned_shift_right(looked_up, st.copied_source_bits)
                    ELSE looked_up
             source_bits == bit_length(source.ty)
             target_bits_to_write == bit_length(target.ty)
         IN  IF /\ source_bits = target_bits_to_write
                /\ st.copied_source_bits = 0
                /\ target.ty = infer_type(val, source.ty)
             THEN copy_field_bits_from(
                      [s EXCEPT !.value_map = strong_update_value_at(@, target.path, val)],
                      c, t + 1,
                      [st EXCEPT !.source_field_index = @ + 1])
             ELSE IF source_bits - st.copied_source_bits >= target_bits_to_write
             THEN LET val1 == IF source_bits - st.copied_source_bits > target_bits_to_write
                              THEN unsigned_modulo(val, target_bits_to_write) ELSE val
                      val2 == IF source.ty # target.ty
                              THEN transmute(val1, target.ty) ELSE val1
                      copied_source_bits == st.copied_source_bits + target_bits_to_write
                  IN  copy_field_bits_from(
                          [s EXCEPT !.value_map =
                              strong_update_value_at(@, target.path, val2)],
                          c, t + 1,
                          IF copied_source_bits = source_bits
                          THEN [source_field_index |-> st.source_field_index + 1,
                                copied_source_bits |-> 0]
                          ELSE [st EXCEPT !.copied_source_bits = copied_source_bits])
             ELSE LET written_target_bits == source_bits - st.copied_source_bits
                      r == copy_bits_of_next_source_fields(s, c, target,
                               [source_field_index |-> st.source_field_index,
                                copied_source_bits |-> st.copied_source_bits,
                                target_bits_to_write |->
                                    target_bits_to_write - written_target_bits,
                                written_target_bits |-> written_target_bits,
                                val |-> unsigned_modulo(val, written_target_bits)])
                  IN  copy_field_bits_from(r.s, c, t + 1,
                          [source_field_index |-> r.source_field_index,
                           copied_source_bits |-> r.copied_source_bits])
copy_field_bits(s, ctx, source_fields, target_fields) ==
    copy_field_bits_from(s,
        [ctx |-> ctx, source_fields |-> source_fields, target_fields |-> target_fields],
        1, [source_field_index |-> 0, copied_source_bits |-> 0])

\* copy_and_transmute: the leaf fields of a path of the given type, and the call
\* of copy_field_bits with those of the source and of the target.
leaf_fields(path, ty) ==
    IF ty.kind = "Tuple"
    THEN [i \in 1 .. Len(ty.fields) |->
             [path |-> new_tuple_field(path, i - 1), ty |-> ty.fields[i]]]
    ELSE <<[path |-> path, ty |-> ty.fields[1]]>>
copy_and_transmute(s, ctx, source_path, source_rustc_type, target_path, target_rustc_type) ==
    copy_field_bits(s, ctx, leaf_fields(source_path, source_rustc_type),
                    leaf_fields(target_path, target_rustc_type))

\* update_value_at for a union field: the value goes to every field of the
\* union, from case_index 0 on.  def holds the types of the fields.
RECURSIVE update_union_fields_from(_, _, _, _, _, _)
update_union_fields_from(s, ctx, def, path, value, i) ==
    IF i > Len(def) THEN s
    ELSE update_union_fields_from(
             copy_and_transmute(s, ctx, new_computed(value),
                                def[case_index_of(selector_of(path)) + 1],
                                new_union_field(qualifier_of(path), i - 1, Len(def)),
                                def[i]),
             ctx, def, path, value, i + 1)
\* update_value_at, the union fields included.
update_value_at_path(s, ctx, def, path, value) ==
    IF is_qualified_path(path) /\ is_union_field(selector_of(path))
    THEN update_union_fields_from(s, ctx, def, path, value, 1)
    ELSE [s EXCEPT !.value_map = update_value_at(@, path, value)]

\* TypeVisitor::get_path_rustc_type for the paths of a union at root with the
\* field types def; the type of a tag field is the dummy untagged value type.
get_path_rustc_type(place, path) ==
    IF path = place.root THEN UnionType(place.def)
    ELSE IF selector_of(path) = "TagField" THEN ScalarType("U8")
    ELSE IF is_union_field(selector_of(path))
    THEN place.def[case_index_of(selector_of(path)) + 1]
    ELSE LET field_index == CHOOSE i \in 1 .. Len(FieldSelectors) :
                                FieldSelectors[i] = selector_of(path)
             tuple == place.def[case_index_of(selector_of(qualifier_of(path))) + 1]
         IN  ScalarType(tuple.fields[field_index])
is_rooted_by_parameter(path) == path.value[1] = "Parameter"

\* The structural order of the paths of a map: that of their selectors.
SelectorOrder == UnionFieldSelectors \o FieldSelectors \o <<"TagField">>
selector_rank(selector) ==
    CHOOSE i \in 1 .. Len(SelectorOrder) : SelectorOrder[i] = selector
RECURSIVE selectors_precede(_, _, _)
selectors_precede(a, b, i) ==
    IF i > Len(a) THEN TRUE
    ELSE IF i > Len(b) THEN FALSE
    ELSE IF a[i] # b[i] THEN selector_rank(a[i]) < selector_rank(b[i])
    ELSE selectors_precede(a, b, i + 1)
RECURSIVE paths_in_order(_)
paths_in_order(paths) ==
    IF paths = {} THEN <<>>
    ELSE LET first == CHOOSE p \in paths :
                          \A q \in paths : selectors_precede(p.selectors, q.selectors, 1)
         IN  <<first>> \o paths_in_order(paths \ {first})
\* value_map.iter().filter(|(p, _)| p.is_rooted_by(root))
paths_rooted_by(map, root) ==
    paths_in_order({p \in DOMAIN map : is_rooted_by(p, root)})

\* The closures attach_tag_to_value_at_path hands to
\* non_patterned_copy_or_move_elements; c holds the tag and which one it is.
apply_update(s, c, path, new_value) ==
    IF c.update = "insert"
    THEN [s EXCEPT !.value_map = strong_update_value_at(@, path, add_tag(new_value, c.tag))]
    ELSE IF /\ is_qualified_path(path)
            /\ selector_of(path) \in {"Layout", "Discriminant", "TagField"}
    THEN s
    ELSE IF ~is_scalar(get_path_rustc_type(c.place, path))
    THEN s
    ELSE update_value_at_path(s, c.ctx, c.place.def, path, add_tag(new_value, c.tag))

RECURSIVE update_children(_, _, _, _, _)
update_children(s, c, env, children, i) ==
    IF i > Len(children) THEN s
    ELSE update_children(apply_update(s, c, children[i], env[children[i]]),
                         c, env, children, i + 1)

\* non_patterned_copy_or_move_elements with target_path = source_path and
\* move_elements = false, for a value that is not a string or a function.
non_patterned_copy_or_move_elements(s, c, path, root_rustc_type) ==
    LET value == lookup_path_and_refine_result(s.value_map, path)
        children == IF is_scalar(root_rustc_type) THEN <<>>
                    ELSE paths_rooted_by(s.value_map, path)
        s1 == update_children(s, c, s.value_map, children, 1)
        of_parameter == /\ ~is_scalar(root_rustc_type)
                        /\ value = Variable(path)
                        /\ is_rooted_by_parameter(path)
        s2 == IF of_parameter THEN apply_update(s1, c, path, value) ELSE s1
        no_children == children = <<>> /\ ~of_parameter
    IN  IF is_scalar(root_rustc_type) \/ no_children
        THEN apply_update(s2, c, path, value)
        ELSE s2

\* extract_tag_field_of_non_scalar_value_at: the state, the path of the tag
\* field and its value.
extract_tag_field_of_non_scalar_value_at(s, qualifier) ==
    LET tag_field_path == canonicalize(new_tag_field(qualifier), s.value_map)
        tag_field_value == lookup_path_and_refine_result(s.value_map, tag_field_path)
        fresh == IF is_rooted_by_parameter(qualifier)
                 THEN UnknownTagField(tag_field_path)
                 ELSE DUMMY_UNTAGGED_VALUE
    IN  IF tag_field_value = Variable(tag_field_path)
        THEN [path |-> tag_field_path,
              value |-> fresh, s |-> [s EXCEPT !.value_map =
                        strong_update_value_at(@, tag_field_path, fresh)]]
        ELSE [path |-> tag_field_path, value |-> tag_field_value, s |-> s]

\* propagate_tag_to_tag_fields: the loop over the prefixes of one path.  No
\* value of an environment here is a reference.
RECURSIVE propagate_to_prefixes(_, _, _, _)
propagate_to_prefixes(r, c, root_path, path_prefix) ==
    IF path_prefix \in r.visited_path_prefixes THEN r
    ELSE LET visited == r.visited_path_prefixes \cup {path_prefix}
             e == extract_tag_field_of_non_scalar_value_at(r.s, path_prefix)
             s1 == IF is_scalar(get_path_rustc_type(c.place, path_prefix)) THEN r.s
                   ELSE [e.s EXCEPT !.value_map =
                            strong_update_value_at(@, e.path, add_tag(e.value, c.tag))]
             r1 == [s |-> s1, visited_path_prefixes |-> visited]
         IN  IF ~is_qualified_path(path_prefix) \/ qualifier_of(path_prefix) = root_path
             THEN r1
             ELSE propagate_to_prefixes(r1, c, root_path, qualifier_of(path_prefix))
RECURSIVE propagate_from(_, _, _, _, _)
propagate_from(r, c, root_path, paths, i) ==
    IF i > Len(paths) THEN r
    ELSE propagate_from(propagate_to_prefixes(r, c, root_path, paths[i]),
                        c, root_path, paths, i + 1)
propagate_tag_to_tag_fields(s, c, root_path) ==
    propagate_from([s |-> s, visited_path_prefixes |-> {}], c, root_path,
                   paths_rooted_by(s.value_map, root_path), 1).s

\* attach_tag_to_value_at_path for a path that is not a pattern: a union
\* field, or any other path.
RECURSIVE attach_tag_to_union_fields_from(_, _, _, _, _)
attach_tag_to_union_fields_from(s, c, qualifier, root_rustc_type, i) ==
    IF i > Len(c.place.def) THEN s
    ELSE attach_tag_to_union_fields_from(
             non_patterned_copy_or_move_elements(s, [c EXCEPT !.update = "insert"],
                 new_union_field(qualifier, i - 1, Len(c.place.def)), root_rustc_type),
             c, qualifier, root_rustc_type, i + 1)
attach_tag_to_value_at_path(s, c, value_path, root_rustc_type) ==
    IF is_qualified_path(value_path) /\ is_union_field(selector_of(value_path))
    THEN attach_tag_to_union_fields_from(s, c, qualifier_of(value_path), root_rustc_type, 1)
    ELSE LET e == extract_tag_field_of_non_scalar_value_at(s, value_path)
             s1 == IF is_scalar(root_rustc_type) THEN s
                   ELSE update_value_at_path(e.s, c.ctx, c.place.def, e.path,
                                             add_tag(e.value, c.tag))
         IN  IF ~is_scalar(root_rustc_type) /\ ~is_propagated_by(c.tag, "SubComponent")
             THEN s1
             ELSE propagate_tag_to_tag_fields(
                      non_patterned_copy_or_move_elements(
                          s1, [c EXCEPT !.update = "update"], value_path, root_rustc_type),
                      c, value_path)

\* The unions of the model, by the types of their fields.
UnionTypes ==
    { <<ScalarType("U8"), ScalarType("U16")>>,
      <<ScalarType("U16"), ScalarType("I16")>>,
      <<ScalarType("U16"), TupleType(<<"U8", "U8">>)>> }
MaxUnionOps == 3
\* The values that are written to a field of a scalar type.
WriteValues(name) ==
    IF name = "U8"
    THEN {Const(5, name), Tagged(Const(6, name), {TagAll})}
    ELSE {Const(258, name), Tagged(Const(772, name), {TagAll})}
\* The paths a tag is attached to: the union, its fields and their fields.
AttachPaths(place) ==
    {place.root}
    \cup {new_union_field(place.root, i - 1, Len(place.def)) : i \in 1 .. Len(place.def)}
    \cup UNION {{new_tuple_field(new_union_field(place.root, i - 1, Len(place.def)), j - 1) :
                    j \in IF is_scalar(place.def[i]) THEN {}
                          ELSE 1 .. Len(place.def[i].fields)} :
                i \in 1 .. Len(place.def)}
\* Tuples whose fields hold constants, and the calls of copy_and_transmute
\* that read them.
PairPath == new_local(2)
TriplePath == new_local(3)
TransmuteTarget == new_local(4)
TupleEnvironment ==
    [p \in {new_tuple_field(PairPath, 0), new_tuple_field(PairPath, 1),
            new_tuple_field(TriplePath, 0), new_tuple_field(TriplePath, 1),
            new_tuple_field(TriplePath, 2)} |->
        IF p = new_tuple_field(PairPath, 0) THEN Const(52, "U8")
        ELSE IF p = new_tuple_field(PairPath, 1) THEN Const(18, "U8")
        ELSE IF p = new_tuple_field(TriplePath, 0) THEN Const(205, "U8")
        ELSE IF p = new_tuple_field(TriplePath, 1) THEN Const(4779, "U16")
        ELSE Const(52, "U8")]
TransmuteCalls ==
    { [source_path |-> PairPath, source_type |-> TupleType(<<"U8", "U8">>),
       target_type |-> ScalarType("U16")],
      [source_path |-> TriplePath, source_type |-> TupleType(<<"U8", "U16", "U8">>),
       target_type |-> TupleType(<<"U16", "U16">>)],
      [source_path |-> TriplePath, source_type |-> TupleType(<<"U8", "U16", "U8">>),
       target_type |-> TupleType(<<"U16", "U8", "U8">>)],
      [source_path |-> PairPath, source_type |-> TupleType(<<"U8", "U8">>),
       target_type |-> TupleType(<<"U8", "U16">>)] }

UnInit ==
    /\ un_place \in {[root |-> r, def |-> d] :
                        r \in {new_local(1), new_parameter(1)}, d \in UnionTypes}
    /\ un_log = None
    /\ un_ops = 0
UnIdle ==
    /\ un_place = [root |-> new_local(1), def |-> <<>>]
    /\ un_log = None
    /\ un_ops = 0

UnState == [buffered_diagnostics |-> buffered_diagnostics, emitted |-> emitted,
            value_map |-> value_map]
UnResult(r) ==
    /\ value_map' = r.value_map
    /\ buffered_diagnostics' = r.buffered_diagnostics
    /\ emitted' = r.emitted
    /\ un_ops' = un_ops + 1
    /\ UNCHANGED <<un_place, diag_ctx>>

\* update_value_at(path, value) for the field case_index of the union.  A
\* value of a tuple type is written field by field, through paths whose
\* selector is not a union field (non_patterned_copy_or_move_elements).
UpdateValueAt(case_index, value) ==
    /\ un_ops < MaxUnionOps
    /\ case_index < Len(un_place.def)
    /\ is_scalar(un_place.def[case_index + 1])
    /\ value \in WriteValues(un_place.def[case_index + 1].fields[1])
    /\ LET path == new_union_field(un_place.root, case_index, Len(un_place.def))
       IN  /\ UnResult(update_value_at_path(UnState, diag_ctx, un_place.def, path, value))
           /\ un_log' = Some([path |-> path, value |-> value,
                              op |-> "update_value_at", case_index |-> case_index,
                              before |-> value_map])

\* attach_tag_to_value_at_path(tag, value_path, root_rustc_type)
AttachTag(tag, value_path) ==
    /\ un_ops < MaxUnionOps
    /\ value_path \in AttachPaths(un_place)
    /\ LET c == [ctx |-> diag_ctx, tag |-> tag, place |-> un_place, update |-> "update"]
       IN  UnResult(attach_tag_to_value_at_path(UnState, c, value_path,
                        get_path_rustc_type(un_place, value_path)))
    /\ un_log' = Some([path |-> value_path, op |-> "attach_tag_to_value_at_path",
                       tag |-> tag, before |-> value_map])

\* copy_and_transmute from a tuple to a local variable of another type.
CopyAndTransmute(call) ==
    /\ un_ops < MaxUnionOps
    /\ UnResult(copy_and_transmute(UnState, diag_ctx, call.source_path, call.source_type,
                                   TransmuteTarget, call.target_type))
    /\ un_log' = Some([path |-> TransmuteTarget, op |-> "copy_and_transmute",
                       before |-> value_map, call |-> call])

(***************************************************************************)
(* visit_body and the disposal of diagnostics (body_visitor.rs).           *)
(* The interpretation of the blocks is seen by what it leaves behind: the  *)
(* time it took and whether a check point has set analysis_is_incomplete.  *)
(***************************************************************************)
MaxClock == 2
MaxBodyTime == 2
MaxDiagnostics == 2

\* Summary { is_computed: true, is_incomplete, ..Summary::default() }
Summary(is_incomplete) == [is_incomplete |-> is_incomplete, is_computed |-> TRUE]
\* summaries::summarize: the summary of exit_environment, of the preconditions
\* and of the post condition; analysis_is_incomplete is not among its arguments.
summarize == Summary(FALSE)

\* The entry of def_id in active_calls_map, 0 if there is none.
enter_active_call(ctx) == [ctx EXCEPT !.call_depth = @ + 1]
leave_active_call(ctx) == [ctx EXCEPT !.call_depth = IF @ > 1 THEN @ - 1 ELSE 0]

elapsed_after(clock, dt) == IF clock + dt > MaxClock THEN MaxClock ELSE clock + dt

\* The visitor state visit_body works on.
BodyState ==
    [buffered_diagnostics |-> buffered_diagnostics, emitted |-> emitted,
     analysis_is_incomplete |-> analysis_is_incomplete]

\* visit_body, lines 234 to 239: the time check that follows visit_blocks.
check_time_after_visit_blocks(s, ctx, elapsed_time_in_seconds, max_analysis_time_for_body) ==
    IF elapsed_time_in_seconds >= max_analysis_time_for_body
    THEN [ctx |-> leave_active_call(ctx), s |-> report_timeout(s, ctx)]
    ELSE [ctx |-> ctx, s |-> s]

\* visit_body, line 245: the condition under which the blocks are traversed
\* again and the body is summarized.
does_check_for_errors(s, diag_level, elapsed_time_in_seconds, max_analysis_time_for_body) ==
    \/ ~s.analysis_is_incomplete
    \/ (elapsed_time_in_seconds < max_analysis_time_for_body /\ diag_level = "Paranoid")

BodyInit ==
    /\ vb_pc = "start"
    /\ vb_clock = 0
    /\ vb_max \in 1 .. MaxBodyTime
    /\ vb_entered_with = None
    /\ vb_result = None
    /\ vb_blown = {}
    /\ cancelled = <<>>

BodyIdle ==
    /\ vb_pc = "idle"
    /\ vb_clock = 0
    /\ vb_max = 1
    /\ vb_entered_with = None
    /\ vb_result = None
    /\ vb_blown = {}
    /\ cancelled = <<>>

\* visit_body up to the call of visit_blocks.
EnterBody ==
    /\ vb_pc = "start"
    /\ vb_pc' = "visit_blocks"
    /\ diag_ctx' = enter_active_call(diag_ctx)
    /\ vb_entered_with' = Some(diag_ctx.call_depth)
    /\ UNCHANGED <<buffered_diagnostics, emitted, analysis_is_incomplete, check_for_errors,
                   vb_clock, vb_max, vb_result, vb_blown, cancelled>>

\* fixed_point_visitor.visit_blocks(): it takes dt seconds and a check point
\* in it may set analysis_is_incomplete.
VisitBlocksOfBody(dt, early_return) ==
    /\ vb_pc = "visit_blocks"
    /\ vb_pc' = "visited"
    /\ vb_clock' = elapsed_after(vb_clock, dt)
    /\ analysis_is_incomplete' = (analysis_is_incomplete \/ early_return)
    /\ vb_blown' = vb_blown \cup (IF early_return THEN {"check point"} ELSE {})
    /\ UNCHANGED <<diag_ctx, buffered_diagnostics, emitted, check_for_errors,
                   vb_max, vb_entered_with, vb_result, cancelled>>

\* visit_body from line 234 on when the blocks are not traversed again: the
\* result is the summary of line 240.
ReturnIncompleteSummary ==
    /\ vb_pc = "visited"
    /\ LET t == check_time_after_visit_blocks(BodyState, diag_ctx, vb_clock, vb_max)
       IN  /\ ~does_check_for_errors(t.s, diag_ctx.diag_level, vb_clock, vb_max)
           /\ buffered_diagnostics' = t.s.buffered_diagnostics
           /\ emitted' = t.s.emitted
           /\ analysis_is_incomplete' = t.s.analysis_is_incomplete
           /\ diag_ctx' = t.ctx
    /\ vb_blown' = vb_blown \cup (IF vb_clock >= vb_max THEN {"time limit"} ELSE {})
    /\ vb_result' = Some(Summary(TRUE))
    /\ vb_pc' = "done"
    /\ UNCHANGED <<check_for_errors, vb_clock, vb_max, vb_entered_with, cancelled>>

\* visit_body from line 234 on when the blocks are traversed again by
\* check_for_errors, which takes dt seconds and in which a check point may
\* set analysis_is_incomplete.
CheckForErrorsAndSummarize(dt, early_return) ==
    /\ vb_pc = "visited"
    /\ LET t == check_time_after_visit_blocks(BodyState, diag_ctx, vb_clock, vb_max)
           s1 == [t.s EXCEPT !.analysis_is_incomplete = @ \/ early_return]
           ctx1 == leave_active_call(t.ctx)
           elapsed_time_in_seconds == elapsed_after(vb_clock, dt)
           timed_out == elapsed_time_in_seconds >= vb_max
           s2 == IF timed_out THEN report_timeout(s1, ctx1) ELSE s1
       IN  /\ does_check_for_errors(t.s, diag_ctx.diag_level, vb_clock, vb_max)
           /\ check_for_errors' = TRUE
           /\ vb_clock' = elapsed_time_in_seconds
           /\ buffered_diagnostics' = s2.buffered_diagnostics
           /\ emitted' = s2.emitted
           /\ analysis_is_incomplete' = s2.analysis_is_incomplete
           /\ diag_ctx' = IF timed_out THEN leave_active_call(ctx1) ELSE ctx1
           /\ vb_result' = Some(IF timed_out THEN Summary(TRUE) ELSE summarize)
           /\ vb_blown' = vb_blown
                  \cup (IF early_return THEN {"check point of check_for_errors"} ELSE {})
                  \cup (IF timed_out THEN {"time limit"} ELSE {})
    /\ vb_pc' = "done"
    /\ UNCHANGED <<vb_max, vb_entered_with, cancelled>>

\* A diagnostic builder: its message and, for each of its primary spans,
\* whether the span lies in the expansion of a derive macro.
DiagnosticBuilders ==
    [message : {"a", "b"},
     primary_spans : {<<>>} \cup {<<x>> : x \in BOOLEAN}
                            \cup {<<x, y>> : x \in BOOLEAN, y \in BOOLEAN}]

emit_diagnostic_ignoring_call_depth(s, ctx, diagnostic_builder) ==
    IF (ctx.treat_as_foreign \/ ~ctx.is_local) /\ ctx.diag_level # "Paranoid"
    THEN [s EXCEPT !.cancelled = Append(@, diagnostic_builder)]
    ELSE IF /\ Len(diagnostic_builder.primary_spans) = 1
            /\ diagnostic_builder.primary_spans[1]
    THEN [s EXCEPT !.cancelled = Append(@, diagnostic_builder)]
    ELSE [s EXCEPT !.buffered_diagnostics = Append(@, diagnostic_builder)]

\* emit_diagnostic on any diagnostic builder; s holds buffered_diagnostics and
\* the diagnostics cancelled so far.
emit_diagnostic_builder(s, ctx, diagnostic_builder) ==
    IF (ctx.treat_as_foreign \/ ~ctx.is_local) /\ ctx.diag_level # "Paranoid"
    THEN [s EXCEPT !.cancelled = Append(@, diagnostic_builder)]
    ELSE IF /\ Len(diagnostic_builder.primary_spans) = 1
            /\ diagnostic_builder.primary_spans[1]
    THEN [s EXCEPT !.cancelled = Append(@, diagnostic_builder)]
    ELSE IF ctx.call_depth > 1
    THEN [s EXCEPT !.cancelled = Append(@, diagnostic_builder)]
    ELSE [s EXCEPT !.buffered_diagnostics = Append(@, diagnostic_builder)]

EmitInit ==
    /\ diag_ctx \in DiagContexts
    /\ buffered_diagnostics = <<>>
    /\ emitted = <<>>
    /\ cancelled = <<>>

\* A call of emit_diagnostic.
EmitDiagnostic(diagnostic_builder) ==
    /\ Len(emitted) < MaxDiagnostics
    /\ LET s == emit_diagnostic_builder(
                    [buffered_diagnostics |-> buffered_diagnostics,
                     cancelled |-> cancelled],
                    diag_ctx, diagnostic_builder)
       IN  /\ buffered_diagnostics' = s.buffered_diagnostics
           /\ cancelled' = s.cancelled
    /\ emitted' = Append(emitted, diagnostic_builder)
    /\ UNCHANGED diag_ctx

\* A call of the body enters or leaves the active calls.
ChangeCallDepth(call_depth) ==
    /\ call_depth # diag_ctx.call_depth
    /\ Len(emitted) < MaxDiagnostics
    /\ diag_ctx' = [diag_ctx EXCEPT !.call_depth = call_depth]
    /\ UNCHANGED <<buffered_diagnostics, emitted, cancelled>>

(***************************************************************************)
(* Options::parse (options.rs).                                            *)
(* The command line parser that make_options_parser declares is modelled   *)
(* on the arguments statistics, test_only and diag, and on the help flag.  *)
(***************************************************************************)
MaxArgs == 4
ArgTokens == {"--", "--statistics", "--test_only", "--diag", "paranoid", "--zzz", "--help"}
ArgLists == UNION {[1 .. n -> ArgTokens] : n \in 0 .. MaxArgs}
HyphenTokens == {a \in ArgTokens : a # "paranoid"}
\* value_parser(["default", "verify", "library", "paranoid"])
DiagValues == {"default", "verify", "library", "paranoid"}

\* args.iter().find_position(|s| s.as_str() == "--"), positions from 0.
find_position(args, token) ==
    IF \E i \in 1 .. Len(args) : args[i] = token
    THEN Some((CHOOSE i \in 1 .. Len(args) :
                  args[i] = token /\ \A j \in 1 .. i - 1 : args[j] # token) - 1)
    ELSE None

\* The matches of an empty command line: diag has the default value
\* "default", the flags have the value source DefaultValue.
DefaultMatches ==
    [diag |-> "default", statistics |-> "DefaultValue", test_only |-> "DefaultValue",
     diag_source |-> "DefaultValue"]

ParseError(kind) == [kind |-> kind, matches |-> DefaultMatches]

\* try_get_matches_from of the parser of make_options_parser, from
\* argument i on: the matches, or the kind of the first error.
RECURSIVE try_get_matches_from(_, _, _, _)
try_get_matches_from(running_test_harness, args, i, matches) ==
    IF i > Len(args)
    THEN [kind |-> "Ok", matches |-> matches]
    ELSE LET a == args[i]
         IN  IF a = "--help"
             THEN ParseError("DisplayHelp")
             ELSE IF a = "--statistics"
             THEN IF matches.statistics = "CommandLine"
                  THEN ParseError("ArgumentConflict")
                  ELSE try_get_matches_from(running_test_harness, args, i + 1,
                           [matches EXCEPT !.statistics = "CommandLine"])
             ELSE IF a = "--test_only" /\ running_test_harness
             THEN IF matches.test_only = "CommandLine"
                  THEN ParseError("ArgumentConflict")
                  ELSE try_get_matches_from(running_test_harness, args, i + 1,
                           [matches EXCEPT !.test_only = "CommandLine"])
             ELSE IF a = "--diag"
             THEN IF matches.diag_source = "CommandLine"
                  THEN ParseError("ArgumentConflict")
                  ELSE IF i = Len(args)
                  THEN ParseError("InvalidValue")
                  ELSE IF args[i + 1] \in HyphenTokens
                  THEN LET rest == try_get_matches_from(running_test_harness, args,
                                                        i + 1, matches)
                       IN  IF rest.kind = "Ok" THEN ParseError("InvalidValue") ELSE rest
                  ELSE IF args[i + 1] \in DiagValues
                  THEN try_get_matches_from(running_test_harness, args, i + 2,
                           [matches EXCEPT !.diag = args[i + 1],
                                           !.diag_source = "CommandLine"])
                  ELSE ParseError("InvalidValue")
             ELSE ParseError("UnknownArgument")

Options == [diag_level : DiagLevels, statistics : BOOLEAN, test_only : BOOLEAN]
\* Options::default()
DefaultOptions == [diag_level |-> "Default", statistics |-> FALSE, test_only |-> FALSE]

\* Options::parse from line 175 on: the fields of self that the matches set.
set_options_from(self, matches, running_test_harness) ==
    LET diag_level ==
            CASE matches.diag = "default" -> "Default"
              [] matches.diag = "verify" -> "Verify"
              [] matches.diag = "library" -> "Library"
              [] matches.diag = "paranoid" -> "Paranoid"
        in_test == running_test_harness /\ matches.test_only # "DefaultValue"
    IN  [diag_level |-> IF in_test /\ diag_level # "Paranoid" THEN "Library" ELSE diag_level,
         statistics |-> (self.statistics \/ matches.statistics # "DefaultValue"),
         test_only |-> (self.test_only \/ in_test)]

Returned(self, rustc_args) == [self |-> self, args |-> rustc_args, outcome |-> "returned"]
Exited(self) == [self |-> self, args |-> <<>>, outcome |-> "exited"]

parse_from(self, args, running_test_harness, separator) ==
    LET hepha_args_end == IF separator # None THEN separator[1] ELSE Len(args)
        rustc_args_start == IF separator # None THEN separator[1] + 1 ELSE 0
        hepha_args == SubSeq(args, 1, hepha_args_end)
        r == try_get_matches_from(running_test_harness, hepha_args, 1, DefaultMatches)
    IN  IF rustc_args_start = 0
        THEN IF r.kind = "Ok"
             THEN Returned(set_options_from(self, r.matches, running_test_harness), <<>>)
             ELSE IF r.kind \in {"DisplayHelp", "UnknownArgument"}
             THEN Returned(self, args)
             ELSE Exited(self)
        ELSE IF r.kind = "Ok"
             THEN Returned(set_options_from(self, r.matches, running_test_harness),
                           SubSeq(args, rustc_args_start + 1, Len(args)))
             ELSE Exited(self)

parse_returning_the_separator(self, args, running_test_harness) ==
    LET separator == find_position(args, "--")
        r == parse_from(self, args, running_test_harness, separator)
    IN  IF separator # None /\ r.outcome = "returned"
        THEN [r EXCEPT !.args = <<"--">> \o @]
        ELSE r

\* Options::parse
parse(self, args, running_test_harness) ==
    parse_from(self, args, running_test_harness, find_position(args, "--"))

OptInit ==
    /\ opt_args \in ArgLists
    /\ opt_harness \in BOOLEAN
    /\ opt_self = DefaultOptions
    /\ opt_out = None

OptIdle ==
    /\ opt_args = <<>>
    /\ opt_harness = FALSE
    /\ opt_self = DefaultOptions
    /\ opt_out = None

\* A call of Options::parse on the arguments.
Parse ==
    /\ opt_out = None
    /\ LET r == parse(opt_self, opt_args, opt_harness)
       IN  /\ opt_out' = Some(r)
           /\ opt_self' = r.self
    /\ UNCHANGED <<opt_args, opt_harness>>

(***************************************************************************)
(* Specifications.                                                         *)
(***************************************************************************)
(***************************************************************************)
(* The reentrancy checker (contract_errors.rs).  The block visitor records *)
(* the statements of the blocks, the blocks that call a lamport transfer   *)
(* and the temporary that holds the balance; check reads them when         *)
(* visit_blocks has gone through the blocks.                               *)
(***************************************************************************)
MaxBasicBlock == 2
RecordedBlocks == 0 .. MaxBasicBlock
MaxStatements == 1
\* A mir::Place: a local and a projection.
Places == {<<local, projection>> : local \in {1, 2}, projection \in {"", ".0"}}
local_of(place) == place[1]
\* A BlockStatement: a statement or the kind of a terminator.
AssignStatement(place) == <<"Statement", "Assign", place>>
OtherStatement == <<"Statement", "StorageLive", <<0, "">>>>
AssertOverflowSub(place) == <<"TerminatorKind", "Assert Overflow Sub Copy", place>>
OtherTerminator == <<"TerminatorKind", "Goto", <<0, "">>>>
BlockStatements ==
    {AssignStatement(place) : place \in Places}
        \cup {AssertOverflowSub(place) : place \in {<<1, "">>, <<2, "">>}}
        \cup {OtherStatement, OtherTerminator}

\* ReentrancyChecker::visit_reentrancy_statement
visit_reentrancy_statement(balance, statement) ==
    /\ statement[2] = "Assign"
    /\ balance # None
    /\ local_of(balance[1]) = local_of(statement[3])
\* ReentrancyChecker::visit_reentrancy_terminator
visit_reentrancy_terminator(balance, kind) ==
    /\ kind[2] = "Assert Overflow Sub Copy"
    /\ balance # None
    /\ local_of(balance[1]) = local_of(kind[3])

\* The loops of check over block_statements, once last_bb is known: the
\* blocks up to last_bb are passed over, and the result is the disjunction
\* over the statements of the other blocks, in whatever order they come.
check_after(statements, balance, last_bb) ==
    \E bb \in DOMAIN statements :
        /\ ~(bb <= last_bb)
        /\ \E i \in 1 .. Len(statements[bb]) :
              LET block_statement == statements[bb][i]
              IN  \/ /\ block_statement[1] = "Statement"
                     /\ visit_reentrancy_statement(balance, block_statement)
                  \/ /\ block_statement[1] = "TerminatorKind"
                     /\ visit_reentrancy_terminator(balance, block_statement)

\* The entries function_lamport_transfer.iter().last() can be: the order in
\* which a HashMap is gone through is not specified and differs from one
\* run to the next, so any entry can be the last.
last_entries(transfers) == transfers

\* ReentrancyChecker::check, with the entry the iteration ends with.
check(statements, transfers, balance, last_bb) ==
    IF transfers = {} THEN FALSE ELSE check_after(statements, balance, last_bb)

ReInit ==
    /\ block_statements = [bb \in RecordedBlocks |-> <<>>]
    /\ function_lamport_transfer = {}
    /\ temporary_variable_for_balance = None
    /\ is_reentrancy = None
ReIdle == ReInit

\* The block visitor records a statement or a terminator of block bb.
RecordBlockStatement(bb, block_statement) ==
    /\ is_reentrancy = None
    /\ Len(block_statements[bb]) < MaxStatements
    /\ block_statements' = [block_statements EXCEPT ![bb] = Append(@, block_statement)]
    /\ UNCHANGED <<function_lamport_transfer, temporary_variable_for_balance, is_reentrancy>>
\* The block visitor records that block bb calls a lamport transfer.
RecordLamportTransfer(bb) ==
    /\ is_reentrancy = None
    /\ function_lamport_transfer' = function_lamport_transfer \cup {bb}
    /\ UNCHANGED <<block_statements, temporary_variable_for_balance, is_reentrancy>>
\* The block visitor records the temporary that holds the balance.
RecordBalanceVariable(place) ==
    /\ is_reentrancy = None
    /\ temporary_variable_for_balance' = Some(place)
    /\ UNCHANGED <<block_statements, function_lamport_transfer, is_reentrancy>>
\* visit_blocks calls check.
CheckReentrancy ==
    /\ is_reentrancy = None
    /\ \/ /\ function_lamport_transfer = {}
          /\ is_reentrancy' = Some([result |-> FALSE, last_bb |-> None])
       \/ \E last_bb \in last_entries(function_lamport_transfer) :
             is_reentrancy' =
                 Some([result |-> check(block_statements, function_lamport_transfer,
                                        temporary_variable_for_balance, last_bb),
                       last_bb |-> Some(last_bb)])
    /\ UNCHANGED <<block_statements, function_lamport_transfer, temporary_variable_for_balance>>

(***************************************************************************)
(* update_value_at on a slice of a collection (body_visitor.rs).           *)
(***************************************************************************)
MAX_ELEMENTS_TO_TRACK == 3
MaxSliceLen == 3
MaxSliceOps == 2

Collection == new_local(1)
new_length(path) == new_qualified(path, "Length")
\* Path::new_index: the selector holds the index value.
new_index(qualifier, index_val) == new_qualified(qualifier, ToString(index_val))
\* AbstractValue::subtract: constants are folded.
subtract(left, right) ==
    IF left[1] = "U128" /\ right[1] = "U128" /\ left[2] >= right[2]
    THEN U128Value(left[2] - right[2])
    ELSE <<"Sub", <<left, right>>>>
\* get_len
get_len(map, path) == lookup_path_and_refine_result(map, new_length(path))

\* The selectors update_value_at tells apart.
Slice(count) ==
    [kind |-> "Slice", count |-> count, from |-> 0, to |-> 0, from_end |-> FALSE]
ConstantSlice(from, to, from_end) ==
    [kind |-> "ConstantSlice", count |-> U128Value(0), from |-> from, to |-> to,
     from_end |-> from_end]
FieldSelector ==
    [kind |-> "Field", count |-> U128Value(0), from |-> 0, to |-> 0, from_end |-> FALSE]
SliceSelectors ==
    {Slice(U128Value(n)) : n \in 0 .. MaxSliceLen}
        \cup {Slice(Variable(new_local(2)))}
        \cup {ConstantSlice(from, to, from_end) :
                 from \in 0 .. MaxSliceLen, to \in 0 .. MaxSliceLen, from_end \in BOOLEAN}
        \cup {FieldSelector}

\* The end of update_value_at: the strong update of a path that is not a
\* slice; the elements of the collection have no aliases to update weakly.
update_element(s, path, value) ==
    [value_map |-> strong_update_value_at(s.value_map, path, value),
     written |-> Append(s.written, path)]
\* The loops of update_value_at: update_value_at(Path::new_index(qualifier,
\* target_index_val), value) for the index values from the k-th one on.
RECURSIVE update_indexed_targets(_, _, _, _, _)
update_indexed_targets(s, qualifier, target_index_vals, value, k) ==
    IF k > Len(target_index_vals) THEN s
    ELSE update_indexed_targets(
             update_element(s, new_index(qualifier, target_index_vals[k]), value),
             qualifier, target_index_vals, value, k + 1)

\* The index values of ConstantSlice { from, to, from_end: true }.
index_values_from_end(end_index, from, to) ==
    [k \in 1 .. (to - from) |-> subtract(end_index, U128Value(from + k - 1))]

\* update_value_at for the path with the given qualifier and selector.
update_value_at_selector(s, qualifier, selector, value) ==
    IF /\ selector.kind = "Slice"
       /\ selector.count[1] = "U128"
       /\ selector.count[2] < MAX_ELEMENTS_TO_TRACK
    THEN update_indexed_targets(s, qualifier,
             [k \in 1 .. selector.count[2] |-> U128Value(k - 1)], value, 1)
    ELSE IF /\ selector.kind = "ConstantSlice" /\ ~selector.from_end
            /\ selector.to >= selector.from
            /\ (selector.to - selector.from) < MAX_ELEMENTS_TO_TRACK
    THEN update_indexed_targets(s, qualifier,
             [k \in 1 .. (selector.to - selector.from) |-> U128Value(selector.from + k - 1)],
             value, 1)
    ELSE IF /\ selector.kind = "ConstantSlice" /\ selector.from_end
            /\ selector.to >= selector.from
            /\ (selector.to - selector.from) < MAX_ELEMENTS_TO_TRACK
    THEN LET one == U128Value(0)
             end_index == subtract(get_len(s.value_map, qualifier), one)
         IN  update_indexed_targets(s, qualifier,
                 index_values_from_end(end_index, selector.from, selector.to), value, 1)
    ELSE update_element(s, new_qualified(qualifier, ToString(selector)), value)

SlInit ==
    /\ sl_map \in {<<>>} \cup
           {MapOf({<<new_length(Collection), U128Value(len)>>}) : len \in 0 .. MaxSliceLen}
    /\ sl_last = None
    /\ sl_ops = 0
SlIdle ==
    /\ sl_map = <<>>
    /\ sl_last = None
    /\ sl_ops = 0

\* One call of update_value_at for a path of the collection.
UpdateSliceAt(selector, value) ==
    /\ sl_ops < MaxSliceOps
    /\ LET r == update_value_at_selector([value_map |-> sl_map, written |-> <<>>],
                                         Collection, selector, value)
       IN  /\ sl_map' = r.value_map
           /\ sl_last' = Some([len |-> get_len(sl_map, Collection), selector |-> selector,
                               written |-> r.written])
    /\ sl_ops' = sl_ops + 1

(***************************************************************************)
(* copy_and_transmute on references to transparent wrappers                *)
(* (body_visitor.rs, type_visitor.rs).  A type is a scalar, the unit type, *)
(* a struct or a reference.                                                *)
(***************************************************************************)
MaxPathLength == 3

U32Type == [kind |-> "u32", fields |-> <<>>, transparent |-> FALSE]
UnitType == [kind |-> "()", fields |-> <<>>, transparent |-> FALSE]
AdtType(transparent, fields) == [kind |-> "Adt", fields |-> fields, transparent |-> transparent]
RefType(ty) == [kind |-> "Ref", fields |-> <<ty>>, transparent |-> FALSE]

\* layout.is_zst()
RECURSIVE is_zst(_)
is_zst(ty) ==
    IF ty.kind = "()" THEN TRUE
    ELSE IF ty.kind = "Adt" THEN \A i \in 1 .. Len(ty.fields) : is_zst(ty.fields[i])
    ELSE FALSE

\* The structs of the crate: a repr(transparent) struct has at most one
\* field that is not zero-sized.
StructsOver(types) ==
    {AdtType(transparent, fields) :
        transparent \in BOOLEAN,
        fields \in {<<t>> : t \in types} \cup {<<UnitType, t>> : t \in types}}
InnerTypes == {U32Type, UnitType} \cup StructsOver({U32Type, UnitType})
PointeeTypes ==
    InnerTypes \cup {AdtType(TRUE, <<t>>) : t \in StructsOver({U32Type, UnitType})}
RustcTypes == {U32Type} \cup {RefType(ty) : ty \in PointeeTypes}

\* type_visitor::is_transparent_wrapper
is_transparent_wrapper(ty) == ty.kind = "Adt" /\ ty.transparent
\* TypeVisitor::remove_transparent_wrapper
remove_transparent_wrapper(ty) ==
    IF ty.kind = "Adt" /\ ty.transparent
    THEN IF \E i \in 1 .. Len(ty.fields) : ~is_zst(ty.fields[i])
         THEN ty.fields[CHOOSE i \in 1 .. Len(ty.fields) :
                            /\ ~is_zst(ty.fields[i])
                            /\ \A j \in 1 .. i - 1 : is_zst(ty.fields[j])]
         ELSE ty
    ELSE ty

\* The arm of the match that strips the wrappers.
is_ref_to_transparent_wrapper(ty) == ty.kind = "Ref" /\ is_transparent_wrapper(ty.fields[1])

CtInit ==
    /\ ct_source_rustc_type \in RustcTypes
    /\ ct_target_rustc_type \in RustcTypes
    /\ ct_pc = "source_fields"
    /\ ct_ty = UnitType
    /\ ct_path = 0
CtIdle ==
    /\ ct_source_rustc_type = U32Type
    /\ ct_target_rustc_type = U32Type
    /\ ct_pc = "idle"
    /\ ct_ty = UnitType
    /\ ct_path = 0

\* The match on source_rustc_type.kind(): the arms without a loop on types.
CollectSourceFields ==
    /\ ct_pc = "source_fields"
    /\ ~is_ref_to_transparent_wrapper(ct_source_rustc_type)
    /\ ct_pc' = "target_fields"
    /\ UNCHANGED <<ct_source_rustc_type, ct_target_rustc_type, ct_ty, ct_path>>
\* The match on source_rustc_type.kind(): the arm for a reference to a transparent wrapper.
EnterSourceLoop ==
    /\ ct_pc = "source_fields"
    /\ is_ref_to_transparent_wrapper(ct_source_rustc_type)
    /\ ct_pc' = "source_loop"
    /\ ct_ty' = ct_source_rustc_type.fields[1]
    /\ ct_path' = 0
    /\ UNCHANGED <<ct_source_rustc_type, ct_target_rustc_type>>
\* The match on target_rustc_type.kind(): the arms without a loop on types.
CollectTargetFields ==
    /\ ct_pc = "target_fields"
    /\ ~is_ref_to_transparent_wrapper(ct_target_rustc_type)
    /\ ct_pc' = "copy_field_bits"
    /\ UNCHANGED <<ct_source_rustc_type, ct_target_rustc_type, ct_ty, ct_path>>
\* The match on target_rustc_type.kind(): the arm for a reference to a transparent wrapper.
EnterTargetLoop ==
    /\ ct_pc = "target_fields"
    /\ is_ref_to_transparent_wrapper(ct_target_rustc_type)
    /\ ct_pc' = "target_loop"
    /\ ct_ty' = ct_target_rustc_type.fields[1]
    /\ ct_path' = 0
    /\ UNCHANGED <<ct_source_rustc_type, ct_target_rustc_type>>
\* One iteration of while is_transparent_wrapper(ty): the path gets one more
\* field selector, which the model follows up to MaxPathLength selectors.
StripWrapper ==
    /\ ct_pc \in {"source_loop", "target_loop"}
    /\ is_transparent_wrapper(ct_ty)
    /\ ct_path < MaxPathLength
    /\ ct_path' = ct_path + 1
    /\ ct_ty' = remove_transparent_wrapper(ct_ty)
    /\ UNCHANGED <<ct_source_rustc_type, ct_target_rustc_type, ct_pc>>
\* The loop is left and the fields of the reference are collected.
LeaveLoop ==
    /\ ct_pc \in {"source_loop", "target_loop"}
    /\ ~is_transparent_wrapper(ct_ty)
    /\ ct_pc' = IF ct_pc = "source_loop" THEN "target_fields" ELSE "copy_field_bits"
    /\ UNCHANGED <<ct_source_rustc_type, ct_target_rustc_type, ct_ty, ct_path>>
\* self.copy_field_bits(source_fields, target_fields), and the return.
CopyFieldBits ==
    /\ ct_pc = "copy_field_bits"
    /\ ct_pc' = "done"
    /\ UNCHANGED <<ct_source_rustc_type, ct_target_rustc_type, ct_ty, ct_path>>

(***************************************************************************)
(* import_static and import_def_id_as_static (body_visitor.rs).            *)
(***************************************************************************)
MaxDefId == 2
MaxFreshVariableOffset == 2

StaticDefIds == 1 .. MaxDefId
\* PathEnum::StaticVariable { def_id, .. }
StaticVariable(def_id) == [def_id |-> def_id]
StaticPaths == {StaticVariable(Some(d)) : d \in StaticDefIds} \cup {StaticVariable(None)}
\* What is known of the summary the call visitor or the summary cache gives.
StaticSummaries == [is_computed : BOOLEAN, has_side_effects : BOOLEAN]

\* The value of analyzing_static_var when import_def_id_as_static returns.
\* The early return comes before the assignment of the saved value.
analyzing_static_var_at_return(saved_analyzing_static_var, returns_early) ==
    IF returns_early THEN TRUE ELSE saved_analyzing_static_var
returns_early(active, path) ==
    path.def_id # None /\ path.def_id[1] \in active
import_def_id_as_static(s, path, summary) ==
    LET saved_analyzing_static_var == s.analyzing_static_var
        early == returns_early(s.active_calls_map, path)
        applies == ~early /\ summary.is_computed /\ summary.has_side_effects
    IN  [s EXCEPT
            !.analyzing_static_var =
                analyzing_static_var_at_return(saved_analyzing_static_var, early),
            !.fresh_variable_offset = IF applies THEN @ + 1 ELSE @]
\* import_static for a path that is a static variable.
import_static(s, path, summary) ==
    IF path \in s.static_value_map THEN s
    ELSE import_def_id_as_static(
             [s EXCEPT !.static_value_map = @ \cup {path}], path, summary)
\* lookup_weak_value: nothing is looked up while a static is analyzed.
lookup_weak_value(analyzing, weak_value) ==
    IF analyzing THEN None ELSE weak_value

StInit ==
    /\ analyzing_static_var = FALSE
    /\ active_calls_map \in (SUBSET (0 .. MaxDefId)) \ {{}}
    /\ static_value_map \in SUBSET StaticPaths
    /\ fresh_variable_offset = 0
    /\ st_last = None
StIdle ==
    /\ analyzing_static_var = FALSE
    /\ active_calls_map = {}
    /\ static_value_map = {}
    /\ fresh_variable_offset = 0
    /\ st_last = None

\* import_static(path), with the summary found for the static.
ImportStatic(path, summary) ==
    /\ fresh_variable_offset < MaxFreshVariableOffset
    /\ LET s == [analyzing_static_var |-> analyzing_static_var,
                 active_calls_map |-> active_calls_map,
                 static_value_map |-> static_value_map,
                 fresh_variable_offset |-> fresh_variable_offset]
           r == import_static(s, path, summary)
       IN  /\ analyzing_static_var' = r.analyzing_static_var
           /\ static_value_map' = r.static_value_map
           /\ fresh_variable_offset' = r.fresh_variable_offset
           /\ st_last' = IF path \in static_value_map THEN st_last
                         ELSE Some([entry |-> analyzing_static_var,
                                    def_id |-> path.def_id,
                                    early |-> returns_early(active_calls_map, path)])
    /\ UNCHANGED active_calls_map
\* The visitor goes on with the environment of another block.
EnterBlockEnvironment(statics) ==
    /\ static_value_map # statics
    /\ static_value_map' = statics
    /\ UNCHANGED <<analyzing_static_var, active_calls_map, fresh_variable_offset, st_last>>

MoreIdle == ReIdle /\ SlIdle /\ CtIdle /\ StIdle
BaseIdle ==
    /\ PropIdle /\ HeapIdle /\ DiagIdle /\ CondIdle /\ OffIdle /\ XferIdle /\ FpIdle
    /\ UnIdle /\ BodyIdle /\ OptIdle

ReFrame == UNCHANGED <<baseVars, slVars, ctVars, stVars>>
ReSpecInit == BaseIdle /\ ReInit /\ SlIdle /\ CtIdle /\ StIdle
ReNext ==
    \/ \E bb \in RecordedBlocks, block_statement \in BlockStatements :
          RecordBlockStatement(bb, block_statement) /\ ReFrame
    \/ \E bb \in RecordedBlocks : RecordLamportTransfer(bb) /\ ReFrame
    \/ \E place \in Places : RecordBalanceVariable(place) /\ ReFrame
    \/ CheckReentrancy /\ ReFrame
SpecReentrancy == ReSpecInit /\ [][ReNext]_vars

SlFrame == UNCHANGED <<baseVars, reVars, ctVars, stVars>>
SlSpecInit == BaseIdle /\ ReIdle /\ SlInit /\ CtIdle /\ StIdle
SlNext ==
    \E selector \in SliceSelectors, value \in {U128Value(1), U128Value(2)} :
        UpdateSliceAt(selector, value) /\ SlFrame
SpecSlice == SlSpecInit /\ [][SlNext]_vars

CtFrame == UNCHANGED <<baseVars, reVars, slVars, stVars>>
CtSpecInit == BaseIdle /\ ReIdle /\ SlIdle /\ CtInit /\ StIdle
CtNext ==
    \/ CollectSourceFields /\ CtFrame
    \/ EnterSourceLoop /\ CtFrame
    \/ CollectTargetFields /\ CtFrame
    \/ EnterTargetLoop /\ CtFrame
    \/ StripWrapper /\ CtFrame
    \/ LeaveLoop /\ CtFrame
    \/ CopyFieldBits /\ CtFrame
\* copy_and_transmute keeps running until it returns.
SpecTransmuteWrappers == CtSpecInit /\ [][CtNext]_vars /\ WF_vars(CtNext)

StFrame == UNCHANGED <<baseVars, reVars, slVars, ctVars>>
StSpecInit == BaseIdle /\ ReIdle /\ SlIdle /\ CtIdle /\ StInit
StNext ==
    \/ \E path \in StaticPaths, summary \in StaticSummaries :
          ImportStatic(path, summary) /\ StFrame
    \/ \E statics \in SUBSET StaticPaths : EnterBlockEnvironment(statics) /\ StFrame
SpecImportStatic == StSpecInit /\ [][StNext]_vars

PropFrame == UNCHANGED <<moreVars, heapVars, diagVars, condVars, offVars, xferVars, fpVars, unVars, bodyVars, optVars>>
PropSpecInit == MoreIdle /\ PropInit /\ HeapIdle /\ DiagIdle /\ CondIdle /\ OffIdle /\ XferIdle /\ FpIdle /\ UnIdle /\ BodyIdle /\ OptIdle
PropNext ==
    \/ AddPropagation /\ PropFrame
    \/ RemovePropagation /\ PropFrame
SpecProp == PropSpecInit /\ [][PropNext]_vars

HeapFrame == UNCHANGED <<moreVars, propVars, diagVars, condVars, offVars, xferVars, fpVars, unVars, bodyVars, optVars>>
HeapSpecInit == MoreIdle /\ PropIdle /\ HeapInit /\ DiagIdle /\ CondIdle /\ OffIdle /\ XferIdle /\ FpIdle /\ UnIdle /\ BodyIdle /\ OptIdle
HeapNext ==
    \/ \E l \in Locations : VisitLocation(l) /\ HeapFrame
    \/ \E len \in LayoutLengths, al \in LayoutAlignments, z \in BOOLEAN :
          GetNewHeapBlock(len, al, z) /\ HeapFrame
    \/ ResetVisitorState /\ HeapFrame
SpecHeap == HeapSpecInit /\ [][HeapNext]_vars

CondFrame == UNCHANGED <<moreVars, propVars, heapVars, diagVars, offVars, xferVars, fpVars, unVars, bodyVars, optVars>>
CondSpecInit == MoreIdle /\ PropIdle /\ HeapIdle /\ DiagIdle /\ CondInit /\ OffIdle /\ XferIdle /\ FpIdle /\ UnIdle /\ BodyIdle /\ OptIdle
CondNext ==
    \/ CheckCondition(FALSE) /\ CondFrame
    \/ CheckCondition(TRUE) /\ CondFrame
SpecCond == CondSpecInit /\ [][CondNext]_vars

OffFrame == UNCHANGED <<moreVars, propVars, heapVars, xferVars, fpVars, unVars, bodyVars, optVars>>
OffSpecInit ==
    /\ MoreIdle /\ PropIdle /\ HeapIdle /\ DiagInit /\ OffInit /\ XferIdle /\ FpIdle /\ UnIdle /\ BodyIdle /\ OptIdle
    /\ cond_entry \in CondValues /\ cond_val = TRUE_VALUE /\ cond_log = <<>>
    /\ smt_solver = NewSolver
OffNext == CheckOffset /\ OffFrame
SpecOffset == OffSpecInit /\ [][OffNext]_vars

EntrySamples ==
    { TRUE_VALUE, FALSE_VALUE,
      [truth |-> {1}, constant |-> FALSE], [truth |-> {}, constant |-> FALSE] }
XferFrame == UNCHANGED <<moreVars, propVars, heapVars, offVars, fpVars, unVars, bodyVars, optVars>>
XferSpecInit ==
    /\ MoreIdle /\ PropIdle /\ HeapIdle /\ OffIdle /\ XferInit /\ FpIdle /\ UnIdle /\ BodyIdle /\ OptIdle
    /\ diag_ctx \in {PlainContext, [PlainContext EXCEPT !.call_depth = 2],
                     [PlainContext EXCEPT !.diag_level = "Verify"]}
    /\ buffered_diagnostics = <<>> /\ emitted = <<>>
    /\ cond_entry \in EntrySamples /\ cond_val = TRUE_VALUE /\ cond_log = <<>>
    /\ smt_solver = NewSolver
XferNext == TransferAndRefine /\ XferFrame
SpecTransfer == XferSpecInit /\ [][XferNext]_vars

FpFrame ==
    UNCHANGED <<moreVars, propVars, heapVars, condVars, offVars, value_map, check_for_errors,
                xfer_log, xfer_calls, xfer_last, unVars, bodyVars, optVars>>
FpSpecInit ==
    /\ MoreIdle /\ PropIdle /\ HeapIdle /\ CondIdle /\ OffIdle /\ FpInit /\ UnIdle /\ BodyIdle /\ OptIdle
    /\ value_map = <<>> /\ check_for_errors = FALSE /\ analysis_is_incomplete = FALSE
    /\ xfer_log = <<>> /\ xfer_calls = 0 /\ xfer_last = None
    /\ diag_ctx \in {PlainContext, [PlainContext EXCEPT !.diag_level = "Paranoid"]}
    /\ buffered_diagnostics = <<>> /\ emitted = <<>>
FpNext ==
    \/ VisitBlocksEnd /\ FpFrame
    \/ VisitBlocksBreak /\ FpFrame
    \/ \E v \in Values : VisitBlocksVisit(v) /\ FpFrame
    \/ VisitBlocksLoop /\ FpFrame
    \/ LoopBodyBreak /\ FpFrame
    \/ \E v \in Values : LoopBodyVisit(v) /\ FpFrame
    \/ LoopBodyNested /\ FpFrame
    \/ LoopIterate /\ FpFrame
    \/ LoopBreakEarly /\ FpFrame
    \/ LoopCapReached /\ FpFrame
    \/ LoopConverged /\ FpFrame
SpecFixedPoint == FpSpecInit /\ [][FpNext]_vars
\* The caller of compute_fixed_point and the loops of the visitor keep running.
FairSpecInit == FpSpecInit /\ diag_ctx = PlainContext
SpecFixedPointFair == FairSpecInit /\ [][FpNext]_vars /\ WF_vars(FpNext)

VisitSpecInit ==
    /\ MoreIdle /\ PropIdle /\ HeapIdle /\ CondIdle /\ OffIdle /\ VisitInit /\ UnIdle /\ BodyIdle
    /\ OptIdle
    /\ value_map = <<>> /\ check_for_errors = FALSE /\ analysis_is_incomplete = FALSE
    /\ xfer_log = <<>> /\ xfer_calls = 0 /\ xfer_last = None
    /\ diag_ctx = PlainContext
    /\ buffered_diagnostics = <<>> /\ emitted = <<>>
SpecVisitBlocks == VisitSpecInit /\ [][FpNext]_vars

GuardedSpecInit ==
    /\ MoreIdle /\ PropIdle /\ HeapIdle /\ CondIdle /\ OffIdle /\ GuardedInit /\ UnIdle /\ BodyIdle
    /\ OptIdle
    /\ value_map = <<>> /\ check_for_errors = FALSE /\ analysis_is_incomplete = FALSE
    /\ xfer_log = <<>> /\ xfer_calls = 0 /\ xfer_last = None
    /\ diag_ctx = PlainContext
    /\ buffered_diagnostics = <<>> /\ emitted = <<>>
GuardedNext ==
    \/ VisitBlocksEnd /\ FpFrame
    \/ VisitBlocksBreak /\ FpFrame
    \/ \E v \in Values : VisitBlocksVisit(v) /\ FpFrame
    \/ VisitBlocksLoop /\ FpFrame
    \/ LoopBodyBreak /\ FpFrame
    \/ \E v \in Values : LoopBodyVisit(v) /\ FpFrame
    \/ LoopIterate /\ FpFrame
    \/ LoopBreakEarly /\ FpFrame
    \/ LoopCapReached /\ FpFrame
    \/ LoopConverged /\ FpFrame
SpecGuardedLoop == GuardedSpecInit /\ [][GuardedNext]_vars

JoinSpecInit ==
    /\ MoreIdle /\ PropIdle /\ HeapIdle /\ CondIdle /\ OffIdle /\ JoinInit /\ UnIdle /\ BodyIdle
    /\ OptIdle
    /\ value_map = <<>> /\ check_for_errors = FALSE /\ analysis_is_incomplete = FALSE
    /\ xfer_log = <<>> /\ xfer_calls = 0 /\ xfer_last = None
    /\ diag_ctx = PlainContext
    /\ buffered_diagnostics = <<>> /\ emitted = <<>>
JoinNext ==
    \/ VisitBlocksEnd /\ FpFrame
    \/ VisitBlocksBreak /\ FpFrame
    \/ \E v \in Values : VisitBlocksVisit(v) /\ FpFrame
SpecJoin == JoinSpecInit /\ [][JoinNext]_vars

UnFrame ==
    UNCHANGED <<moreVars, propVars, heapVars, condVars, offVars, fpVars, check_for_errors,
                analysis_is_incomplete, xfer_log, xfer_calls, xfer_last, bodyVars, optVars>>
UnSpecInit ==
    /\ MoreIdle /\ PropIdle /\ HeapIdle /\ DiagIdle /\ CondIdle /\ OffIdle /\ FpIdle /\ UnInit
    /\ BodyIdle /\ OptIdle
    /\ value_map = TupleEnvironment
    /\ check_for_errors = FALSE /\ analysis_is_incomplete = FALSE
    /\ xfer_log = <<>> /\ xfer_calls = 0 /\ xfer_last = None
UnNext ==
    \/ \E case_index \in {0, 1}, name \in {"U8", "U16"} :
          \E value \in WriteValues(name) : UpdateValueAt(case_index, value) /\ UnFrame
    \/ \E tag \in Tags : \E value_path \in AttachPaths(un_place) :
          AttachTag(tag, value_path) /\ UnFrame
    \/ \E call \in TransmuteCalls : CopyAndTransmute(call) /\ UnFrame
SpecUnion == UnSpecInit /\ [][UnNext]_vars

BodyFrame ==
    UNCHANGED <<moreVars, propVars, heapVars, condVars, offVars, value_map, xfer_log, xfer_calls,
                xfer_last,
                fpVars, unVars, optVars>>
BodySpecInit ==
    /\ MoreIdle /\ PropIdle /\ HeapIdle /\ CondIdle /\ OffIdle /\ FpIdle /\ UnIdle /\ BodyInit
    /\ OptIdle
    /\ value_map = <<>> /\ check_for_errors = FALSE /\ analysis_is_incomplete = FALSE
    /\ xfer_log = <<>> /\ xfer_calls = 0 /\ xfer_last = None
    /\ diag_ctx \in {c \in DiagContexts : c.call_depth < 2 /\ ~c.in_derive_expansion}
    /\ buffered_diagnostics = <<>> /\ emitted = <<>>
BodyNext ==
    \/ EnterBody /\ BodyFrame
    \/ \E dt \in 0 .. MaxClock, early_return \in BOOLEAN :
          VisitBlocksOfBody(dt, early_return) /\ BodyFrame
    \/ ReturnIncompleteSummary /\ BodyFrame
    \/ \E dt \in 0 .. MaxClock, early_return \in BOOLEAN :
          CheckForErrorsAndSummarize(dt, early_return) /\ BodyFrame
SpecBody == BodySpecInit /\ [][BodyNext]_vars

EmitFrame ==
    UNCHANGED <<moreVars, propVars, heapVars, condVars, offVars, xferVars, fpVars, unVars,
                vb_pc, vb_clock, vb_max, vb_entered_with, vb_result, vb_blown, optVars>>
EmitSpecInit ==
    /\ MoreIdle /\ PropIdle /\ HeapIdle /\ CondIdle /\ OffIdle /\ XferIdle /\ FpIdle /\ UnIdle
    /\ BodyIdle /\ EmitInit /\ OptIdle
EmitNext ==
    \/ \E diagnostic_builder \in DiagnosticBuilders :
          EmitDiagnostic(diagnostic_builder) /\ EmitFrame
    \/ \E call_depth \in 0 .. 2 : ChangeCallDepth(call_depth) /\ EmitFrame
SpecEmit == EmitSpecInit /\ [][EmitNext]_vars

OptFrame ==
    UNCHANGED <<moreVars, propVars, heapVars, diagVars, condVars, offVars, xferVars, fpVars, unVars,
                bodyVars>>
OptSpecInit ==
    /\ MoreIdle /\ PropIdle /\ HeapIdle /\ DiagIdle /\ CondIdle /\ OffIdle /\ XferIdle /\ FpIdle
    /\ UnIdle /\ BodyIdle /\ OptInit
OptNext == Parse /\ OptFrame
SpecOptions == OptSpecInit /\ [][OptNext]_vars

SortFrame ==
    UNCHANGED <<moreVars, propVars, heapVars, diagVars, condVars, offVars, xferVars, unVars,
                bodyVars, optVars>>
SortSpecInit ==
    /\ MoreIdle /\ PropIdle /\ HeapIdle /\ DiagIdle /\ CondIdle /\ OffIdle /\ XferIdle /\ UnIdle
    /\ BodyIdle /\ OptIdle /\ SortInit
SortNext == GetSortedBlockIndices /\ SortFrame
SpecSort == SortSpecInit /\ [][SortNext]_vars

(***************************************************************************)
(* Claims.                                                                 *)
(***************************************************************************)
\* C7: add_propagation(remove_propagation(s, t), t) is s with t enabled,
\* remove_propagation(add_propagation(s, t), t) is s with t disabled, neither
\* function changes the membership of another kind, add is a no-op when t is
\* enabled and remove is a no-op when t is disabled.
C7_PropagationRoundTrip ==
    /\ propSet \in U128
    /\ propOps = <<"remove", "add">> => propSet = propOrig \cup {propKind}
    /\ propOps = <<"add", "remove">> => propSet = propOrig \ {propKind}
    /\ \A k \in BitIndex \ {propKind} : (k \in propSet) = (k \in propOrig)
    /\ (propOps = <<"add">> /\ propKind \in propOrig) => propSet = propOrig
    /\ (propOps = <<"remove">> /\ propKind \notin propOrig) => propSet = propOrig
    /\ (propOps # <<>> /\ propOps[Len(propOps)] = "add") => propKind \in propSet
    /\ (propOps # <<>> /\ propOps[Len(propOps)] = "remove") => propKind \notin propSet

C7_Witness ==
    /\ propOps = <<"remove", "add">>
    /\ propKind \notin propOrig
    /\ propSet # propOrig
    /\ propOrig \ {propKind} # {}

\* C3: within one body visit, the calls of get_new_heap_block made at one
\* location all return the same heap block, whatever their arguments.
C3_HeapBlockDeterminism ==
    \A l \in Locations : Cardinality(heap_returned[l]) <= 1

C3_Witness ==
    /\ heap_last # None
    /\ heap_last[1].block.is_zeroed # heap_last[1].is_zeroed
    /\ heap_layouts[heap_last[1].block].length = 16
    /\ heap_addresses[heap_last[1].location] = Some(heap_last[1].block)
    /\ heap_counter >= 2

\* C4 (as stated): check_condition_value_and_reachability never returns
\* Some(true) as the truth of the condition both for c and for not(c) under the
\* same entry condition, whatever the oracle answers.
C4_NeverBothTrue ==
    \A i, j \in 1 .. Len(cond_log) :
        (cond_log[i].negated # cond_log[j].negated)
            => ~(cond_log[i].cond_as_bool = Some(TRUE) /\ cond_log[j].cond_as_bool = Some(TRUE))

\* C4 (amended): with a satisfiable entry condition and an oracle whose
\* Satisfiable and Unsatisfiable answers are correct (it may answer Undefined
\* at will), the calls for c and for not(c) never both return Some(true).
C4_NeverBothTrueSoundOracle ==
    \A i, j \in 1 .. Len(cond_log) :
        (/\ cond_log[i].negated # cond_log[j].negated
         /\ cond_log[i].sound /\ cond_log[j].sound
         /\ cond_entry.truth # {})
            => ~(cond_log[i].cond_as_bool = Some(TRUE) /\ cond_log[j].cond_as_bool = Some(TRUE))

C4_Witness ==
    /\ Len(cond_log) = 2
    /\ cond_entry.truth # {}
    /\ as_bool_if_known(cond_entry) = None
    /\ ~cond_log[1].negated /\ cond_log[2].negated
    /\ cond_log[1].sound /\ cond_log[2].sound
    /\ cond_log[1].asked = 3 /\ cond_log[2].asked = 2
    /\ cond_log[1].cond_as_bool = Some(TRUE)
    /\ cond_log[2].cond_as_bool = Some(FALSE)

\* C8: for a pointer into a heap block whose Layout records length L and a
\* reachable entry condition, check_offset makes no warning for the offset L
\* and makes the warning for the offset L + 1.
C8_OffsetOnePastEnd ==
    (/\ off_done
     /\ off_input.left_is_heap_block /\ off_input.layout_known
     /\ as_bool_if_known(cond_entry) = Some(TRUE))
        => /\ off_input.right = off_input.length => emitted = <<>>
           /\ off_input.right = off_input.length + 1 => emitted = <<OffsetWarning>>

(***************************************************************************)
(* C9: during the error-checking pass, when two DeAlloc layout effects for *)
(* the same heap block are transferred one after the other, the block not  *)
(* being deallocated before, the first leaves the Layout entry of the      *)
(* block with source DeAlloc and hands no double-free warning to           *)
(* emit_diagnostic, and the second hands it the warning "the pointer       *)
(* points to memory that has already been deallocated".                    *)
(***************************************************************************)
HasWarning(warnings, message) == \E k \in 1 .. Len(warnings) : warnings[k] = message
IsLayoutWithSource(value, source) ==
    value[1] = "HeapBlockLayout" /\ value[2].source = source
DoubleDeAllocAt(i) ==
    /\ check_for_errors
    /\ i + 1 \in 1 .. Len(xfer_log)
    /\ xfer_log[i].source = "DeAlloc"
    /\ xfer_log[i + 1].source = "DeAlloc"
    /\ xfer_log[i].tpath = xfer_log[i + 1].tpath
    /\ xfer_log[i].tpath \in {new_layout(BlockPath(z)) : z \in BOOLEAN}
    /\ ~IsLayoutWithSource(xfer_log[i].old_layout, "DeAlloc")
C9_DoubleFree ==
    \A i \in 1 .. Len(xfer_log) :
        DoubleDeAllocAt(i) =>
            /\ xfer_log[i].tpath \in DOMAIN xfer_log[i].value_map
            /\ IsLayoutWithSource(xfer_log[i].value_map[xfer_log[i].tpath], "DeAlloc")
            /\ ~HasWarning(xfer_log[i].warnings, DoubleFreeWarning)
            /\ HasWarning(xfer_log[i + 1].warnings, DoubleFreeWarning)
C9_Witness ==
    \E i \in 1 .. Len(xfer_log) :
        /\ DoubleDeAllocAt(i)
        /\ IsLayoutWithSource(xfer_log[i].old_layout, "Alloc")
        /\ HasWarning(emitted, DoubleFreeWarning)
        /\ HasWarning(buffered_diagnostics, DoubleFreeWarning)

(***************************************************************************)
(* C10: after a ReAlloc layout effect for a zeroed heap block B has been   *)
(* transferred, no path of the environment holds a reference to the zeroed *)
(* version of B.                                                           *)
(***************************************************************************)
C10_ReAllocClearsZeroed ==
    \A i \in 1 .. Len(xfer_log) :
        (/\ xfer_log[i].source = "ReAlloc"
         /\ xfer_log[i].tpath = new_layout(BlockPath(TRUE)))
        => \A p \in DOMAIN xfer_log[i].value_map :
               xfer_log[i].value_map[p] # Reference(BlockPath(TRUE))
\* The references are rewritten when the effects also hold the layout
\* argument of the reallocation.
C10_ClearedWithLayoutArgument ==
    \E i \in 1 .. Len(xfer_log) :
        /\ xfer_log[i].source = "ReAlloc"
        /\ xfer_log[i].tpath = new_layout(BlockPath(TRUE))
        /\ Actual \in DOMAIN xfer_log[i].value_map
        /\ xfer_log[i].value_map[Actual] = Reference(BlockPath(FALSE))

\* The blocks of the loop body of loop_anchor: those it dominates.
LoopBody(loop_anchor) ==
    {b \in BasicBlocks(fp_body) : dominates(fp_body, loop_anchor, b)}
\* The anchors of the loops nested in the loop of loop_anchor.
NestedAnchors(loop_anchor) == (LoopBody(loop_anchor) \cap loop_anchors) \ {loop_anchor}
\* The block compute_fixed_point(loop_anchor) returns when every block of the
\* loop body is visited: the last one of the body in block_indices.
LastBlockOf(loop_anchor) ==
    block_indices[CHOOSE i \in 1 .. Len(block_indices) :
                      /\ block_indices[i] \in LoopBody(loop_anchor)
                      /\ \A j \in i + 1 .. Len(block_indices) :
                            block_indices[j] \notin LoopBody(loop_anchor)]
\* The blocks whose out-state visit_loop_body(loop_anchor) compares with the
\* one of the iteration before: those it visits itself and the last block
\* of each loop nested in it.
ComparedBlocks(loop_anchor) ==
    {b \in LoopBody(loop_anchor) :
        \/ \A a \in NestedAnchors(loop_anchor) : b \notin LoopBody(a)
        \/ \E a \in NestedAnchors(loop_anchor) : b = LastBlockOf(a)}

\* C1 (as stated): when compute_fixed_point leaves its loop with changed ==
\* false, the out-state of every block of the loop body, the blocks of nested
\* loops included, is a subset of its out-state of the iteration before.
C1_SubsetForEveryLoopBodyBlock ==
    (fp_last_exit # None /\ ~fp_last_exit[1].changed)
        => fp_last_exit[1].not_subset = {}

\* C1 (amended): when compute_fixed_point leaves its loop with changed ==
\* false and not by an early break, the out-state of every block of the loop
\* body that visit_loop_body compares (the blocks it visits itself and the
\* last block of each nested loop) is a subset of its out-state of the
\* iteration before.
C1_SubsetForComparedBlocks ==
    (/\ fp_last_exit # None
     /\ ~fp_last_exit[1].changed
     /\ fp_last_exit[1].why # "early break")
        => fp_last_exit[1].not_subset \cap ComparedBlocks(fp_last_exit[1].loop_anchor) = {}

\* The outer loop of the nested body has left its loop at the fixed point,
\* with out-states that are not all at the bottom of the chain.
C1_Witness ==
    /\ fp_body = NestedLoopBody
    /\ fp_last_exit # None
    /\ fp_last_exit[1].loop_anchor = 1
    /\ ~fp_last_exit[1].changed
    /\ fp_last_exit[1].why = "loop condition"
    /\ out_state[1].value_map = ConstantValue(MaxValue)
    /\ out_state[3].value_map = ConstantValue(MaxValue)

\* C2: when the out-state of a loop is still changing at
\* MAX_FIXPOINT_ITERATIONS, compute_fixed_point stops and
\* analysis_is_incomplete is true afterwards.
C2_IterationLimitMarksIncomplete ==
    (/\ fp_last_exit # None
     /\ fp_last_exit[1].why = "iteration limit"
     /\ fp_last_exit[1].changed)
        => analysis_is_incomplete

\* The leaf fields of the type ty at path with the bit offset of each of
\* them in the packed bytes of the value.
RECURSIVE bit_offset(_, _)
bit_offset(fields, i) ==
    IF i = 1 THEN 0 ELSE bit_offset(fields, i - 1) + bit_length(fields[i - 1].ty)
Min(a, b) == IF a <= b THEN a ELSE b
\* The field at position i of fields holds, in the bits it shares with a
\* value of source_bits bits, the bits of that value.
HoldsBitsOf(map, fields, i, bits, source_bits) ==
    LET shared == Min(bit_length(fields[i].ty), source_bits - bit_offset(fields, i))
    IN  bit_offset(fields, i) < source_bits =>
            /\ fields[i].path \in DOMAIN map
            /\ operand_of(map[fields[i].path])[1] = "Const"
            /\ operand_of(map[fields[i].path])[2].bits % Pow2(shared)
                   = (bits \div Pow2(bit_offset(fields, i))) % Pow2(shared)
LastWriteThroughUnionField == un_log # None /\ un_log[1].op = "update_value_at"
SiblingFields(j) ==
    leaf_fields(new_union_field(un_place.root, j - 1, Len(un_place.def)), un_place.def[j])

\* C6: after a value v_k is written through UnionField{k,n}, every field of
\* the union holds the little-endian transmutation of the bytes of v_k to
\* its type: each of its leaf fields holds the bits of v_k at its offset.
C6_UnionAliasing ==
    LastWriteThroughUnionField =>
        \A j \in 1 .. Len(un_place.def) :
            \A i \in 1 .. Len(SiblingFields(j)) :
                HoldsBitsOf(value_map, SiblingFields(j), i,
                            operand_of(un_log[1].value)[2].bits,
                            bit_length(un_place.def[un_log[1].case_index + 1].fields[1]))

\* The part of C6 that holds: the same for the fields of the union that are
\* not wider than the field written.
C6_AliasingOfCoveredFields ==
    LastWriteThroughUnionField =>
        LET source_bits == bit_length(un_place.def[un_log[1].case_index + 1].fields[1])
        IN  \A j \in 1 .. Len(un_place.def) :
              \A i \in 1 .. Len(SiblingFields(j)) :
                (bit_offset(SiblingFields(j), i) + bit_length(SiblingFields(j)[i].ty)
                     <= source_bits)
                   => HoldsBitsOf(value_map, SiblingFields(j), i,
                                  operand_of(un_log[1].value)[2].bits, source_bits)

\* copy_and_transmute of a tuple of constants: a wider target field is the
\* concatenation of consecutive source fields, the low field in the low bits.
C6_ConcatenationOfSourceFields ==
    (un_log # None /\ un_log[1].op = "copy_and_transmute") =>
        LET call == un_log[1].call
            targets == leaf_fields(TransmuteTarget, call.target_type)
            bits_of(k) == operand_of(value_map[targets[k].path])[2].bits
        IN  /\ (call.source_path = PairPath /\ call.target_type = ScalarType("U16"))
                 => bits_of(1) = 18 * 256 + 52
            /\ (call.source_path = TriplePath /\ Len(targets) = 2)
                 => bits_of(1) = 171 * 256 + 205 /\ bits_of(2) = 52 * 256 + 18
            /\ (call.source_path = TriplePath /\ Len(targets) = 3)
                 => bits_of(1) = 171 * 256 + 205 /\ bits_of(2) = 18 /\ bits_of(3) = 52

\* C5: attach_tag_to_value_at_path removes no tag: every tag that the value
\* at a path has before a call, the value at that path has after the call.
C5_TagsMonotonic ==
    (un_log # None /\ un_log[1].op = "attach_tag_to_value_at_path") =>
        \A p \in DOMAIN un_log[1].before :
            /\ p \in DOMAIN value_map
            /\ tags_of(un_log[1].before[p]) \subseteq tags_of(value_map[p])

\* The part of C5 that holds: the same for the paths that are not fields of
\* a union, and for a tag attached to a field of a union.
C5_MonotonicOutsideUnionFields ==
    (un_log # None /\ un_log[1].op = "attach_tag_to_value_at_path") =>
        \A p \in DOMAIN un_log[1].before :
            (\/ ~is_qualified_path(p)
             \/ ~is_union_field(selector_of(p))
             \/ (/\ is_qualified_path(un_log[1].path)
                 /\ is_union_field(selector_of(un_log[1].path))))
               => /\ p \in DOMAIN value_map
                  /\ tags_of(un_log[1].before[p]) \subseteq tags_of(value_map[p])

(***************************************************************************)
(* visit_body.                                                             *)
(***************************************************************************)
\* C11: whenever a budget is blown during visit_body (the body time limit is
\* reached, or a check point has set analysis_is_incomplete), the Summary
\* visit_body returns has is_incomplete = true, in every diagnostic level.
C11_BlownBudgetMarksIncomplete ==
    (vb_pc = "done" /\ vb_blown # {}) =>
        (vb_result # None /\ vb_result[1].is_incomplete)

\* What does hold: a body whose time limit is found reached by one of the two
\* time checks of visit_body is summarized as incomplete, and so is a body
\* in which a check point of visit_blocks has set analysis_is_incomplete,
\* unless the diagnostic level is Paranoid.
C11_TimeLimitMarksIncomplete ==
    (vb_pc = "done" /\ "time limit" \in vb_blown) =>
        (vb_result # None /\ vb_result[1].is_incomplete)
C11_CheckPointMarksIncompleteOutsideParanoid ==
    (vb_pc = "done" /\ diag_ctx.diag_level # "Paranoid" /\ "check point" \in vb_blown) =>
        (vb_result # None /\ vb_result[1].is_incomplete)

(***************************************************************************)
(* emit_diagnostic.                                                        *)
(***************************************************************************)
\* The diagnostics the claim says are cancelled.
IsNoise(ctx, diagnostic_builder) ==
    \/ (ctx.treat_as_foreign \/ ~ctx.is_local) /\ ctx.diag_level # "Paranoid"
    \/ /\ Len(diagnostic_builder.primary_spans) = 1
       /\ diagnostic_builder.primary_spans[1]
    \/ ctx.call_depth > 1

\* C12: emit_diagnostic disposes of every diagnostic exactly once: it is
\* cancelled, and buffered_diagnostics is left unchanged, if the body is
\* foreign and the level is not Paranoid, or its single primary span lies in
\* a derive macro expansion, or the depth of the active calls exceeds 1;
\* otherwise it is appended to buffered_diagnostics.
C12_DisposedExactlyOnce ==
    [][emitted' # emitted =>
         LET diagnostic_builder == emitted'[Len(emitted')]
         IN  IF IsNoise(diag_ctx, diagnostic_builder)
             THEN /\ cancelled' = Append(cancelled, diagnostic_builder)
                  /\ buffered_diagnostics' = buffered_diagnostics
             ELSE /\ buffered_diagnostics' = Append(buffered_diagnostics, diagnostic_builder)
                  /\ cancelled' = cancelled]_vars

\* A diagnostic cancelled for its span in an own body at depth 1, after one
\* that was buffered although one of its two spans lies in a derive macro.
C12_Witness ==
    /\ ~diag_ctx.treat_as_foreign /\ diag_ctx.is_local /\ diag_ctx.call_depth = 1
    /\ Len(emitted) = 2
    /\ Len(buffered_diagnostics) = 1 /\ Len(cancelled) = 1
    /\ buffered_diagnostics[1].primary_spans = <<TRUE, FALSE>>
    /\ cancelled[1].primary_spans = <<TRUE>>

(***************************************************************************)
(* Options::parse.                                                         *)
(***************************************************************************)
\* The arguments before the leftmost "--" token and those after it.
BeforeSeparator(args) ==
    LET p == CHOOSE i \in 1 .. Len(args) :
                 args[i] = "--" /\ \A j \in 1 .. i - 1 : args[j] # "--"
    IN  SubSeq(args, 1, p - 1)
AfterSeparator(args) ==
    LET p == CHOOSE i \in 1 .. Len(args) :
                 args[i] = "--" /\ \A j \in 1 .. i - 1 : args[j] # "--"
    IN  SubSeq(args, p + 1, Len(args))
HasSeparator(args) == \E i \in 1 .. Len(args) : args[i] = "--"
\* The options that the arguments, all of them HEPHA options, stand for.
OptionsOf(args) ==
    set_options_from(DefaultOptions,
                     try_get_matches_from(opt_harness, args, 1, DefaultMatches).matches,
                     opt_harness)
\* An argument that is neither an option of HEPHA nor the value of one.
IsUnknownToHepha(args, i) ==
    /\ args[i] \notin {"--statistics", "--diag", "--help"}
    /\ ~(args[i] = "--test_only" /\ opt_harness)
    /\ ~(i > 1 /\ args[i - 1] = "--diag" /\ args[i] \in DiagValues)
AllParseAsOptions(args) ==
    try_get_matches_from(opt_harness, args, 1, DefaultMatches).kind = "Ok"

\* C13: when Options::parse returns, it returns exactly the arguments that
\* follow the leftmost "--" token and has interpreted only the arguments
\* before it as HEPHA options; without a "--" token it returns an empty list
\* if all the arguments parse as HEPHA options, and all the arguments,
\* unchanged, if one of them is unknown to HEPHA.
C13_ParseSplitsAtLeftmostSeparator ==
    (opt_out # None /\ opt_out[1].outcome = "returned") =>
        IF HasSeparator(opt_args)
        THEN /\ opt_out[1].args = AfterSeparator(opt_args)
             /\ opt_self = OptionsOf(BeforeSeparator(opt_args))
        ELSE /\ AllParseAsOptions(opt_args) =>
                   opt_out[1].args = <<>> /\ opt_self = OptionsOf(opt_args)
             /\ (\E i \in 1 .. Len(opt_args) : IsUnknownToHepha(opt_args, i)) =>
                   opt_out[1].args = opt_args /\ opt_self = DefaultOptions

\* Two "--" tokens, with an option of HEPHA behind them.
C13_Witness ==
    /\ opt_args = <<"--diag", "paranoid", "--", "--">>
    /\ opt_out # None
    /\ opt_out[1].outcome = "returned"
    /\ opt_out[1].args = <<"--">>
    /\ opt_self.diag_level = "Paranoid"

\* Without a "--" token: all the arguments are options, or one is unknown.
C13_WitnessWithoutSeparator ==
    /\ opt_out # None
    /\ opt_out[1].outcome = "returned"
    /\ \/ opt_args = <<"--statistics", "--diag", "paranoid">> /\ opt_out[1].args = <<>>
       \/ opt_args = <<"--statistics", "--zzz">> /\ opt_out[1].args = opt_args

(***************************************************************************)
(* get_sorted_block_indices.                                               *)
(***************************************************************************)
PositionOf(bb) == CHOOSE i \in 1 .. Len(block_indices) : block_indices[i] = bb
IsBackEdge(p, b) == p \in SeqRange(predecessors(fp_body, b)) /\ dominates(fp_body, b, p)
EveryBlockOnce ==
    /\ Len(block_indices) = Len(fp_body)
    /\ SeqRange(block_indices) = BasicBlocks(fp_body)
PredecessorsFirst ==
    \A b \in BasicBlocks(fp_body) : \A p \in SeqRange(predecessors(fp_body, b)) :
        dominates(fp_body, b, p) \/ PositionOf(p) < PositionOf(b)
AnchorsAreBackEdgeTargets ==
    loop_anchors = {b \in BasicBlocks(fp_body) : \E p \in BasicBlocks(fp_body) : IsBackEdge(p, b)}

\* C18: for every control flow graph, whatever the numbering of its blocks,
\* get_sorted_block_indices returns every block exactly once, places every
\* predecessor p of a block b before b unless b dominates p, and records in
\* loop_anchors exactly the blocks that are the target of a back edge.
C18_SortedBlockIndices ==
    (fp_done /\ block_indices # <<>>) =>
        EveryBlockOnce /\ PredecessorsFirst /\ AnchorsAreBackEdgeTargets

\* When every edge that is not a back edge goes to a higher index and every
\* back edge to a lower one, the order and the loop anchors are as described.
C18_SortedWhenBackEdgesGoToLowerIndices ==
    (/\ fp_done /\ block_indices # <<>>
     /\ \A b \in BasicBlocks(fp_body) : \A p \in SeqRange(predecessors(fp_body, b)) :
            \/ p < b /\ ~dominates(fp_body, b, p)
            \/ p > b /\ dominates(fp_body, b, p))
        => EveryBlockOnce /\ PredecessorsFirst /\ AnchorsAreBackEdgeTargets

(***************************************************************************)
(* The in-state of a block (visit_basic_block).                            *)
(***************************************************************************)
LastVisit == fp_visit[1]

\* C14: for a loop anchor bb, iteration 1 takes state from no predecessor
\* that bb dominates, and every iteration after the first takes state only
\* from predecessors that bb dominates.
C14_AnchorPredecessorsByIteration ==
    (fp_visit # None /\ LastVisit.bb \in loop_anchors) =>
        /\ LastVisit.iteration_count >= 1
        /\ \A sc \in LastVisit.taken :
              IF LastVisit.iteration_count = 1
              THEN ~dominates(fp_body, LastVisit.bb, sc.pred_bb)
              ELSE dominates(fp_body, LastVisit.bb, sc.pred_bb)
\* The anchor of the nested loop at iteration 1, in a later iteration of the
\* enclosing loop: block 3 has an exit condition for it, and is not taken.
C14_Witness ==
    /\ fp_visit # None /\ fp_body = NestedLoopBody
    /\ LastVisit.bb = 2 /\ LastVisit.iteration_count = 1
    /\ 2 \in DOMAIN out_state[3].exit_conditions
    /\ {sc.pred_bb : sc \in LastVisit.taken} = {1}
C14_WitnessLaterIteration ==
    /\ fp_visit # None /\ fp_body = NestedLoopBody
    /\ LastVisit.bb = 1 /\ LastVisit.iteration_count = 2
    /\ 1 \in DOMAIN out_state[0].exit_conditions
    /\ {sc.pred_bb : sc \in LastVisit.taken} = {3}

\* C16: the in-state of a loop anchor is the join of its previous in-state
\* with the state from its predecessors at iteration 2 exactly, and the
\* widening of the two at iteration 3 and later; at iteration 1, and for a
\* block that is not a loop anchor, it is the state from the predecessors.
C16_JoinAtTwoWidenFromThree ==
    fp_visit # None =>
        LET visit == LastVisit
            i_state == in_state[visit.bb]
        IN  /\ visit.iteration_count = 2 =>
                  i_state.value_map =
                      join(visit.previous_state, visit.from_predecessors).value_map
            /\ visit.iteration_count >= 3 =>
                  i_state.value_map =
                      widen(visit.previous_state, visit.from_predecessors).value_map
            /\ visit.iteration_count <= 1 => i_state = visit.from_predecessors
            /\ visit.bb \notin loop_anchors => visit.iteration_count = 0
\* An iteration 2 where the join and the widening differ.
C16_Witness ==
    /\ fp_visit # None
    /\ LastVisit.iteration_count = 2
    /\ upper_bound(LastVisit.previous_state.value_map)
          < upper_bound(LastVisit.from_predecessors.value_map)
    /\ in_state[LastVisit.bb].value_map = LastVisit.from_predecessors.value_map
    /\ in_state[LastVisit.bb].value_map # ConstantValue(TopValue)
C16_WitnessWiden ==
    /\ fp_visit # None
    /\ LastVisit.iteration_count = 3
    /\ upper_bound(LastVisit.previous_state.value_map)
          < upper_bound(LastVisit.from_predecessors.value_map)
    /\ LastVisit.from_predecessors.value_map # ConstantValue(TopValue)
    /\ in_state[LastVisit.bb].value_map = ConstantValue(TopValue)

(***************************************************************************)
(* compute_fixed_point.                                                    *)
(***************************************************************************)
\* C17: compute_fixed_point always terminates and, unless a check point
\* breaks its loop, interprets the loop body at least 4 and at most
\* MAX_FIXPOINT_ITERATIONS times, whatever the subset tests return.
C17_IterationsBounded ==
    /\ \A i \in 1 .. Len(fp_stack) :
          /\ fp_stack[i].anchor_visits <= MAX_FIXPOINT_ITERATIONS
          /\ fp_stack[i].anchor_visits <= fp_stack[i].iteration_count
    /\ (fp_last_exit # None /\ fp_last_exit[1].why # "early break") =>
          /\ fp_last_exit[1].anchor_visits >= 4
          /\ fp_last_exit[1].anchor_visits <= MAX_FIXPOINT_ITERATIONS
C17_Terminates == <>fp_done
C17_FixedPointTerminatesWithinBounds == []C17_IterationsBounded /\ C17_Terminates
\* The loop was left after 4 iterations; and at the limit, still changing.
C17_Witness ==
    /\ fp_last_exit # None /\ fp_last_exit[1].why = "loop condition"
    /\ fp_last_exit[1].anchor_visits = 4
    /\ fp_stack = <<>>
C17_WitnessAtLimit ==
    /\ fp_last_exit # None /\ fp_last_exit[1].why = "iteration limit"
    /\ fp_last_exit[1].anchor_visits = MAX_FIXPOINT_ITERATIONS
    /\ fp_last_exit[1].changed

(***************************************************************************)
(* Entry conditions, exit conditions and cleanup blocks.                   *)
(***************************************************************************)
\* C15: for every loop anchor and every iteration k >= 4, the entry condition
\* of the in-state at iteration k is the one computed at iteration 3.
C15_EntryConditionFrozenAtThree ==
    \A i \in 1 .. Len(fp_stack) :
        LET frame == fp_stack[i]
        IN  (frame.iteration_count >= 3 /\ frame.entry_condition_at_3 # None) =>
                in_state[frame.loop_anchor].entry_condition = frame.entry_condition_at_3[1]
\* At iteration 4 the predecessors give another condition than the one
\* iteration 3 computed, which itself differs from the one of iteration 1.
C15_Witness ==
    /\ fp_visit # None /\ fp_stack # <<>>
    /\ LastVisit.bb = TopFrame.loop_anchor
    /\ LastVisit.iteration_count >= 4
    /\ TopFrame.entry_condition_at_3 # None
    /\ LastVisit.from_predecessors.entry_condition # TopFrame.entry_condition_at_3[1]
    /\ TopFrame.entry_condition_at_3[1] # out_state[0].exit_conditions[1]

TakenPredecessors == {sc.pred_bb : sc \in LastVisit.taken}
VisitWithPredecessors ==
    fp_visit # None /\ ~(LastVisit.iteration_count = 0 /\ LastVisit.bb = 0)
KnownFalseContributesNothing == LastVisit.known_false \cap TakenPredecessors = {}

C19_WitnessLoopAnchor ==
    /\ VisitWithPredecessors
    /\ LastVisit.known_false # {} /\ LastVisit.taken = {}
    /\ LastVisit.iteration_count >= 2
    /\ in_state[LastVisit.bb].entry_condition = Atom("c")

Valuations == SUBSET {"c", "x"}
holds_under(condition, valuation) == \E conjunction \in condition : conjunction \subseteq valuation
RECURSIVE value_under(_, _)
value_under(value, valuation) ==
    IF value[1] = "const" THEN value[2]
    ELSE IF holds_under(value[2], valuation)
    THEN value_under(value[3], valuation)
    ELSE value_under(value[4], valuation)

\* C21: when one predecessor contributes to the in-state of a block, the
\* in-state has the values of that predecessor and its entry condition is the
\* exit condition of that predecessor for the block.  When several
\* contribute, the entry condition is the disjunction of their exit
\* conditions for the block, and wherever the entry condition holds the value
\* of the path is the value of a predecessor whose own exit condition holds.
C21_InStateFromPredecessors ==
    (VisitWithPredecessors /\ LastVisit.iteration_count <= 1 /\ LastVisit.taken # {}) =>
        LET bb == LastVisit.bb
            taken == LastVisit.taken
            i_state == in_state[bb]
        IN  /\ \A sc \in taken :
                  sc.condition = out_state[sc.pred_bb].exit_conditions[bb]
            /\ Cardinality(taken) = 1 =>
                  \A sc \in taken :
                      /\ i_state.value_map = out_state[sc.pred_bb].value_map
                      /\ i_state.entry_condition = sc.condition
            /\ \A valuation \in Valuations :
                  /\ holds_under(i_state.entry_condition, valuation)
                        <=> \E sc \in taken : holds_under(sc.condition, valuation)
                  /\ holds_under(i_state.entry_condition, valuation) =>
                        \E sc \in taken :
                            /\ holds_under(sc.condition, valuation)
                            /\ value_under(i_state.value_map, valuation) =
                                   value_under(out_state[sc.pred_bb].value_map, valuation)
\* Three predecessors with three different exit conditions and values that
\* differ: the value of the path is a conditional expression in another one.
C21_Witness ==
    /\ fp_visit # None /\ LastVisit.bb = 4
    /\ Cardinality({sc.condition : sc \in LastVisit.taken}) = 3
    /\ in_state[4].value_map[1] = "if"
    /\ in_state[4].value_map[4][1] = "if"
    /\ in_state[4].entry_condition = TrueCondition
C21_WitnessOnePredecessor ==
    /\ fp_visit # None /\ LastVisit.bb = 4
    /\ Cardinality(LastVisit.taken) = 1
    /\ in_state[4].entry_condition = {{"c", "x"}}
    /\ in_state[4].value_map = ConstantValue(MaxValue)

(***************************************************************************)
(* The queries of the solver are bracketed.                                *)
(***************************************************************************)
\* The number of the backtrack positions that are open after the first i operations.
RECURSIVE open_positions(_, _)
open_positions(ops, i) ==
    IF i = 0 THEN 0
    ELSE open_positions(ops, i - 1)
           + (IF ops[i].op = "set_backtrack_position" THEN 1
              ELSE IF ops[i].op = "backtrack" THEN -1 ELSE 0)
\* Every set_backtrack_position is matched by one backtrack after it.
bracketed(ops) ==
    /\ \A i \in 1 .. Len(ops) : open_positions(ops, i) >= 0
    /\ open_positions(ops, Len(ops)) = 0
\* Every predicate is asserted and every query is made inside a bracket.
inside_a_bracket(ops) ==
    \A i \in 1 .. Len(ops) :
        ops[i].op \in {"assert", "solve"} => open_positions(ops, i) > 0

\* C22: in every call of check_condition_value_and_reachability, and so of
\* solve_condition, every set_backtrack_position is matched by one backtrack,
\* the predicates are asserted inside the brackets, and the assertion stack
\* of the solver has the depth and the contents after the call that it had
\* before it.
C22_QueriesAreBracketed ==
    /\ \A i \in 1 .. Len(cond_log) :
          /\ bracketed(cond_log[i].ops)
          /\ inside_a_bracket(cond_log[i].ops)
          /\ perform_all(cond_log[i].solver_before, cond_log[i].ops, 1)
                 = cond_log[i].solver_before
    /\ cond_log # <<>> => smt_solver = cond_log[Len(cond_log)].solver_before
\* A call that asks about the entry condition, the condition and its
\* inverse: three levels of brackets are open at the innermost query.
C22_Witness ==
    \E i \in 1 .. Len(cond_log) :
        /\ cond_log[i].asked = 3
        /\ \E k \in 1 .. Len(cond_log[i].ops) :
              /\ open_positions(cond_log[i].ops, k) = 3
              /\ cond_log[i].ops[k].op = "solve"
        /\ smt_solver = NewSolver

(***************************************************************************)
(* The reentrancy check.                                                   *)
(***************************************************************************)
\* What the recorded body holds: the balance variable has been loaded into
\* a temporary, a lamport transfer is recorded, and a block after the block
\* of a transfer stores to the location the load accessed.
stores_to(block_statement, place) ==
    /\ block_statement[2] \in {"Assign", "Assert Overflow Sub Copy"}
    /\ block_statement[3] = place
LoadTransferStore ==
    /\ temporary_variable_for_balance # None
    /\ \E transfer \in function_lamport_transfer, bb \in RecordedBlocks :
          /\ bb > transfer
          /\ \E i \in 1 .. Len(block_statements[bb]) :
                stores_to(block_statements[bb][i], temporary_variable_for_balance[1])

\* C23: check returns true exactly when the recorded body has a LOAD of the
\* balance variable, a lamport TRANSFER and, in a block after the transfer,
\* a STORE to the location the LOAD accessed; it returns false when no
\* transfer is recorded.
C23_TrueIffLoadTransferStore ==
    is_reentrancy # None =>
        /\ is_reentrancy[1].result <=> LoadTransferStore
        /\ function_lamport_transfer = {} => ~is_reentrancy[1].result
\* The part of C23 that holds: without a recorded transfer check returns false.
C23_FalseWithoutTransfer ==
    (is_reentrancy # None /\ function_lamport_transfer = {}) => ~is_reentrancy[1].result

\* C27: the result of check does not depend on the order in which the maps
\* are gone through: whichever entry of function_lamport_transfer is the
\* last one, the result is the one that was returned.
C27_CheckIsDeterministic ==
    is_reentrancy # None =>
        \A last_bb \in function_lamport_transfer :
            check(block_statements, function_lamport_transfer,
                  temporary_variable_for_balance, last_bb) = is_reentrancy[1].result

(***************************************************************************)
(* visit_blocks interprets every block.                                    *)
(***************************************************************************)
DominatedByALoopAnchor(bb) == \E loop_anchor \in loop_anchors : dominates(fp_body, loop_anchor, bb)
\* visit_blocks has left its loop over block_indices and no check point broke a loop.
CompletedWithoutEarlyBreak == fp_done /\ ~early_break_taken
EveryBlockInterpreted ==
    \A bb \in BasicBlocks(fp_body) :
        /\ interpreted[bb] >= 1
        /\ ~DominatedByALoopAnchor(bb) => interpreted[bb] = 1
\* A block that no loop anchor dominates is never interpreted twice.
AtMostOnceOutsideLoops ==
    \A bb \in BasicBlocks(fp_body) : ~DominatedByALoopAnchor(bb) => interpreted[bb] <= 1
\* Once the loop of visit_blocks is left, for the vulnerability checks, no block is interpreted.
NothingInterpretedAfterTheChecks == fp_done => UNCHANGED interpreted

\* C24: when visit_blocks completes without an early break, every basic
\* block has been interpreted at least once and every block that no loop
\* anchor dominates exactly once; the vulnerability checks come when
\* visit_blocks has left its loop, and no block is interpreted after them.
C24_EveryBlockInterpreted ==
    /\ [](CompletedWithoutEarlyBreak => EveryBlockInterpreted)
    /\ []AtMostOnceOutsideLoops
    /\ [][NothingInterpretedAfterTheChecks]_vars
\* The body with the branch around the loop: block 3 is interpreted once,
\* after the loop, whose blocks were interpreted more than once.
C24_Witness ==
    /\ CompletedWithoutEarlyBreak
    /\ fp_body = BranchAroundLoopBody
    /\ loop_anchors = {1}
    /\ ~DominatedByALoopAnchor(3)
    /\ interpreted[3] = 1 /\ interpreted[0] = 1
    /\ interpreted[1] >= 2 /\ interpreted[2] >= 2

(***************************************************************************)
(* visit_body and active_calls_map.                                        *)
(***************************************************************************)
\* C25: visit_body is balanced on active_calls_map on every path: when it
\* returns, the count of def_id is the count it was entered with (no entry
\* stands for the count zero).
C25_ActiveCallsBalanced ==
    vb_pc = "done" => diag_ctx.call_depth = vb_entered_with[1]
\* The paths on which the count is restored: the time limit is found reached
\* after visit_blocks, or the blocks are traversed again and the time limit
\* is not found reached after that.
C25_BalancedOnTheOtherPaths ==
    (/\ vb_pc = "done"
     /\ \/ ~check_for_errors /\ "time limit" \in vb_blown
        \/ check_for_errors /\ "time limit" \notin vb_blown)
        => diag_ctx.call_depth = vb_entered_with[1]

(***************************************************************************)
(* The effects of a callee are transferred one by one.                     *)
(***************************************************************************)
\* C26: an effect rooted by source_path whose refined target path is
\* PhantomData is skipped, and every other effect rooted by source_path,
\* before it or after it, is applied.
C26_OtherEffectsStillApplied ==
    (xfer_last # None /\ xfer_last[1].stop.why = "PhantomData"
                      /\ xfer_last[1].stop.at \in xfer_last[1].rooted) =>
        /\ xfer_last[1].stop.at \notin xfer_last[1].applied
        /\ \A i \in xfer_last[1].rooted \ {xfer_last[1].stop.at} : i \in xfer_last[1].applied
\* The part of C26 that holds: the effect is skipped, and the effects before
\* it are applied; without such an effect every rooted effect is applied.
C26_EffectsBeforeAreApplied ==
    /\ (xfer_last # None /\ xfer_last[1].stop.why = "PhantomData"
                         /\ xfer_last[1].stop.at \in xfer_last[1].rooted) =>
          /\ xfer_last[1].stop.at \notin xfer_last[1].applied
          /\ \A i \in xfer_last[1].rooted :
                i < xfer_last[1].stop.at => i \in xfer_last[1].applied
    /\ (xfer_last # None /\ xfer_last[1].stop = NoStop) =>
          xfer_last[1].applied = xfer_last[1].rooted

(***************************************************************************)
(* The elements a slice from the end writes.                               *)
(***************************************************************************)
ElementsOf(qualifier, len) == {new_index(qualifier, U128Value(i)) : i \in 0 .. len - 1}
\* The last call was for ConstantSlice { from, to, from_end } on a
\* collection of known length with from <= to <= len.
SliceOfKnownLength(from_end) ==
    /\ sl_last # None
    /\ sl_last[1].selector.kind = "ConstantSlice"
    /\ sl_last[1].selector.from_end = from_end
    /\ sl_last[1].len[1] = "U128"
    /\ sl_last[1].selector.from <= sl_last[1].selector.to
    /\ sl_last[1].selector.to <= sl_last[1].len[2]

\* C28: for ConstantSlice { from, to, from_end: true } on a collection of
\* known length len with from <= to <= len, update_value_at writes only
\* elements whose index is in 0 .. len - 1, and to - from distinct ones.
C28_SliceFromEndWritesInRange ==
    SliceOfKnownLength(TRUE) =>
        /\ SeqRange(sl_last[1].written) \subseteq ElementsOf(Collection, sl_last[1].len[2])
        /\ Cardinality(SeqRange(sl_last[1].written))
               = sl_last[1].selector.to - sl_last[1].selector.from
\* What holds of the slices from the start that are shorter than MAX_ELEMENTS_TO_TRACK.
C28_SliceFromStartWritesInRange ==
    (SliceOfKnownLength(FALSE)
        /\ sl_last[1].selector.to - sl_last[1].selector.from < MAX_ELEMENTS_TO_TRACK) =>
        /\ SeqRange(sl_last[1].written) \subseteq ElementsOf(Collection, sl_last[1].len[2])
        /\ Cardinality(SeqRange(sl_last[1].written))
               = sl_last[1].selector.to - sl_last[1].selector.from

(***************************************************************************)
(* The loops of copy_and_transmute that strip transparent wrappers.        *)
(***************************************************************************)
\* The number of transparent wrappers around a type.
RECURSIVE wrappers_around(_)
wrappers_around(ty) ==
    IF is_transparent_wrapper(ty) /\ remove_transparent_wrapper(ty) # ty
    THEN 1 + wrappers_around(remove_transparent_wrapper(ty))
    ELSE 0
\* A transparent wrapper all of whose fields are zero-sized is met by a loop.
RECURSIVE meets_zero_sized_wrapper(_)
meets_zero_sized_wrapper(ty) ==
    /\ is_transparent_wrapper(ty)
    /\ \/ remove_transparent_wrapper(ty) = ty
       \/ meets_zero_sized_wrapper(remove_transparent_wrapper(ty))
LoopMeetsZeroSizedWrapper ==
    \/ is_ref_to_transparent_wrapper(ct_source_rustc_type)
          /\ meets_zero_sized_wrapper(ct_source_rustc_type.fields[1])
    \/ is_ref_to_transparent_wrapper(ct_target_rustc_type)
          /\ meets_zero_sized_wrapper(ct_target_rustc_type.fields[1])

\* C29: copy_and_transmute terminates for every source type and target
\* type: every iteration of a loop that strips transparent wrappers makes
\* progress (ty has one wrapper less after it), also for a transparent
\* wrapper all of whose fields are zero-sized.
C29_EveryIterationMakesProgress ==
    [][StripWrapper =>
          /\ ct_ty' # ct_ty
          /\ wrappers_around(ct_ty') < wrappers_around(ct_ty)]_vars
\* The iterations that make progress are those on a wrapper with a field
\* that is not zero-sized.
C29_ProgressWithoutZeroSizedWrappers ==
    [][(StripWrapper /\ remove_transparent_wrapper(ct_ty) # ct_ty)
          => wrappers_around(ct_ty') < wrappers_around(ct_ty)]_vars
\* copy_and_transmute returns when no loop meets a transparent wrapper all of
\* whose fields are zero-sized.
C29_TerminatesWithoutZeroSizedWrappers ==
    LoopMeetsZeroSizedWrapper \/ <>(ct_pc = "done")
\* It does not return otherwise: the loop goes on with the same ty.
C29_LoopOnZeroSizedWrapperGoesOn ==
    [][(StripWrapper /\ remove_transparent_wrapper(ct_ty) = ct_ty)
          => (ct_pc' = ct_pc /\ ct_ty' = ct_ty /\ is_transparent_wrapper(ct_ty'))]_vars

(***************************************************************************)
(* import_def_id_as_static and analyzing_static_var.                       *)
(***************************************************************************)
\* C30: import_def_id_as_static restores analyzing_static_var to the value it
\* had at the entry on every return path, the early return for a def_id that
\* is in active_calls_map included.
C30_AnalyzingStaticVarRestored ==
    st_last # None => analyzing_static_var = st_last[1].entry
\* What holds: the value is restored by the calls that do not return early,
\* and it is true after one that does.
C30_RestoredUnlessActive ==
    st_last # None =>
        analyzing_static_var = (IF st_last[1].early THEN TRUE ELSE st_last[1].entry)
\* Once the flag is left set, lookup_weak_value finds nothing.
C30_NoWeakValueAfterEarlyReturn ==
    (st_last # None /\ st_last[1].early) =>
        lookup_weak_value(analyzing_static_var, Some(1)) = None

====
